---- MODULE Spec2Model ----
(***************************************************************************)
(* DiverSoku puzzle engine: the bitmask engine (flat Int8Array board,      *)
(* PEERS table) and the array-of-array engine, modelled side by side.      *)
(*                                                                         *)
(* The source fixes a 9x9 grid made of 3x3 boxes.  Every 9, 3, 81 and 20   *)
(* of the source is derived here from BoxSize, so that the algorithms are  *)
(* the source's but the grid is N x N with N = BoxSize * BoxSize.  A board *)
(* is a function from the flat cell index r * N + c to 0..N (0 = empty);   *)
(* the array engine's board[r][c] is the cell r * N + c.  A bitmask of     *)
(* candidates is modelled as the set of the digits whose bit is set.       *)
(***************************************************************************)
EXTENDS Integers, Sequences, FiniteSets, TLC

(***************************************************************************)
(* State.  engine: which of the two engine files the worker has loaded.    *)
(* pc: the position of the running call.  difficulty, config: e.data of    *)
(* the message being served.  attempt, bestResult, bestScore, result, ret: *)
(* the locals and the return value of generatePuzzleSync.  solution,       *)
(* puzzle, pairs, pairIndex, removed: the locals of the running            *)
(* generatePuzzleAttempt (pairIndex: position of the for-of loop in        *)
(* pairs).  message: what the worker posted.  log and exit are history     *)
(* variables: the results of the attempts made so far, and the return      *)
(* statement generatePuzzleSync left by.                                   *)
(*                                                                         *)
(* A call of solvePuzzleWithLogic taken one technique call at a time:      *)
(* given: its argument.  work: its board and candidates (board, cand),     *)
(* with the progress flag of the last technique call (prog) and, as a      *)
(* history field, the filled cells that a placement wrote to (over).       *)
(* tech: the position of the for-of loop in the techniques.  stats:        *)
(* maxLevel and techniquesUsed.  trace is a history variable: the          *)
(* technique calls made so far, each with its position in the techniques   *)
(* and what it returned.                                                   *)
(*                                                                         *)
(* The page (script.js): puzzlePool, the pool by difficulty.               *)
(* puzzleWorker: the worker as the page sees it, Null before               *)
(* initPuzzleWorker, then the messages under way in each direction (inbox, *)
(* outbox) and the number of results posted.  game: the generatePuzzle     *)
(* calls made and the difficulty of the one generating on the main thread. *)
(***************************************************************************)
VARIABLES engine, pc, difficulty, config, attempt, bestResult, bestScore, result, ret,
          solution, puzzle, pairs, pairIndex, removed, message, log, exit,
          given, work, tech, stats, trace,
          puzzlePool, puzzleWorker, game

solverVars == << given, work, tech, stats, trace >>

poolVars == << puzzlePool, puzzleWorker, game >>

vars == << engine, pc, difficulty, config, attempt, bestResult, bestScore, result, ret,
           solution, puzzle, pairs, pairIndex, removed, message, log, exit, solverVars,
           poolVars >>

\* Side of a box (3 in the source); the grid has N rows and N columns.
BoxSize == 2

N == BoxSize * BoxSize

NN == N * N

Cells == 0 .. (NN - 1)

Digits == 1 .. N

RowOf(idx) == idx \div N

ColOf(idx) == idx % N

\* Math.floor(r / 3) * 3: first row (column) of the box of row (column) x.
BoxStart(x) == (x \div BoxSize) * BoxSize

EmptyBoard == [i \in Cells |-> 0]

\* The PEERS table: row, column and box of a cell, the cell itself excluded.
PEERS ==
  [i \in Cells |->
     { p \in Cells :
         /\ p # i
         /\ \/ RowOf(p) = RowOf(i)
            \/ ColOf(p) = ColOf(i)
            \/ /\ BoxStart(RowOf(p)) = BoxStart(RowOf(i))
               /\ BoxStart(ColOf(p)) = BoxStart(ColOf(i)) }]

\* findEmpty / findEmptyCell: first empty cell in row-major order, -1 if none.
findEmpty(board) ==
  IF \E i \in Cells : board[i] = 0
  THEN CHOOSE i \in Cells : board[i] = 0 /\ \A k \in Cells : k < i => board[k] # 0
  ELSE -1

\* isValid without the box: only the row and the column of idx are scanned.
isValidNoBox(board, idx, num) ==
  \A p \in PEERS[idx] : (RowOf(p) = RowOf(idx) \/ ColOf(p) = ColOf(idx)) => board[p] # num

\* Bitmask engine: no peer of idx holds num.
isValid(board, idx, num) == \A p \in PEERS[idx] : board[p] # num

\* Array engine (and the bitmask engine's wrapper): scans the whole row, the
\* whole column and the whole box of (r, c), the cell (r, c) included.
isValidPlacement(board, r, c, num) ==
  /\ \A i \in 0 .. (N - 1) : board[r * N + i] # num
  /\ \A i \in 0 .. (N - 1) : board[i * N + c] # num
  /\ \A rr \in BoxStart(r) .. (BoxStart(r) + BoxSize - 1) :
       \A cc \in BoxStart(c) .. (BoxStart(c) + BoxSize - 1) :
         board[rr * N + cc] # num

(***************************************************************************)
(* shuffleArray: Fisher-Yates.  draws[i] is the index j the source computes *)
(* as Math.floor(Math.random() * (i + 1)) at loop index i (0-based), so    *)
(* 0 <= draws[i] <= i.  Arrays are 1-based sequences: index i is i + 1.    *)
(***************************************************************************)
Swap(array, i, j) ==
  [array EXCEPT ![i + 1] = array[j + 1], ![j + 1] = array[i + 1]]

RECURSIVE shuffleFrom(_, _, _)
shuffleFrom(array, draws, i) ==
  IF i <= 0 THEN array
  ELSE \* swapped is bound to the array after the swap, worked out once
       CHOOSE out \in { shuffleFrom(swapped, draws, i - 1) :
                          swapped \in { Swap(array, i, draws[i]) } } : TRUE

shuffleArray(array, draws) == shuffleFrom(array, draws, Len(array) - 1)

\* Every stream of draws Math.random() can produce for an array of n items.
FreeDraws(n) == { d \in [1 .. (n - 1) -> 0 .. (n - 1)] : \A i \in 1 .. (n - 1) : d[i] <= i }

\* Number of values Math.random() takes in the bounded runs: k / RandomLevels.
RandomLevels == 2

RandomValues == 0 .. (RandomLevels - 1)

\* Bounded random source: the draws of one shuffleArray call on n items when
\* Math.random() returns k / RandomLevels at every draw of the call.
ConstDraw(n, k) == [i \in 1 .. (n - 1) |-> (k * (i + 1)) \div RandomLevels]

DigitArray == [i \in 1 .. N |-> i]

\* shuffleArray([1, 2, ..., N]) under the bounded random source.
numOrder(k) == shuffleArray(DigitArray, ConstDraw(N, k))

\* The orders shuffleArray([1, 2, ..., N]) can return: every permutation.
FreeNumOrders == { shuffleArray(DigitArray, d) : d \in FreeDraws(N) }

\* The orders it returns under the bounded random source.
ConstNumOrders == { numOrder(k) : k \in RandomValues }

(***************************************************************************)
(* fillBoard (bitmask engine).  The value is the set of outcomes           *)
(* [ok, board] the call can end in when each shuffleArray returns one of   *)
(* orders: ok is the return value, board the board as the call leaves it.  *)
(* rec[b] is the set of outcomes of the recursive call fillBoard(b).       *)
(***************************************************************************)
\* fillNums without "board[idx] = 0": the board of a failed trial is carried on
\* as it is (a board no call was tabulated for counts as a failed call).
RECURSIVE fillNumsNoReset(_, _, _, _)
fillNumsNoReset(b, idx, nums, rec) ==
  IF nums = << >> THEN { [ok |-> FALSE, board |-> b] }
  ELSE
    LET num == Head(nums) IN
    IF isValid(b, idx, num)
    THEN LET placed == [b EXCEPT ![idx] = num]
             calls == IF placed \in DOMAIN rec THEN rec[placed]
                      ELSE { [ok |-> FALSE, board |-> placed] }
         IN { r \in calls : r.ok }
              \cup UNION { fillNumsNoReset(r.board, idx, Tail(nums), rec) :
                           r \in { q \in calls : ~q.ok } }
    ELSE fillNumsNoReset(b, idx, Tail(nums), rec)

RECURSIVE fillNums(_, _, _, _)
\* The for-loop over nums, from the board b the loop has reached.
fillNums(b, idx, nums, rec) ==
  IF nums = << >> THEN { [ok |-> FALSE, board |-> b] }
  ELSE
    LET num == Head(nums) IN
    IF isValid(b, idx, num)
    THEN LET placed == [b EXCEPT ![idx] = num] IN
         { r \in rec[placed] : r.ok }
            \cup UNION { fillNums([r.board EXCEPT ![idx] = 0], idx, Tail(nums), rec) :
                         r \in { q \in rec[placed] : ~q.ok } }
    ELSE fillNums(b, idx, Tail(nums), rec)

fillBoard(board, orders, rec) ==
  LET idx == findEmpty(board) IN
  IF idx = -1 THEN { [ok |-> TRUE, board |-> board] }
  ELSE UNION { fillNums(board, idx, nums, rec) : nums \in orders }

(***************************************************************************)
(* countSolutions (bitmask engine): solve() with the shared counter.       *)
(***************************************************************************)
RECURSIVE solve(_, _, _)
RECURSIVE solveNums(_, _, _, _, _)
solveNums(board, idx, num, count, limit) ==
  IF num > N THEN count
  ELSE \* counted is bound to the counter after trying num, worked out once
       CHOOSE out \in { solveNums(board, idx, num + 1, counted, limit) :
                          counted \in { IF isValid(board, idx, num)
                                         THEN solve([board EXCEPT ![idx] = num], count, limit)
                                         ELSE count } } : TRUE

\* solve without the test of the counter against the limit.
solveUnlimited(board, count, limit) ==
  CHOOSE out \in { IF idx = -1 THEN count + 1
                     ELSE solveNums(board, idx, 1, count, limit) :
                     idx \in { findEmpty(board) } } : TRUE

solve(board, count, limit) ==
  IF count >= limit THEN count
  ELSE CHOOSE out \in { IF idx = -1 THEN count + 1
                          ELSE solveNums(board, idx, 1, count, limit) :
                          idx \in { findEmpty(board) } } : TRUE

countSolutions(board2D, limit) == solve(board2D, 0, limit)

(***************************************************************************)
(* The array engine's fillBoard and countSolutions: the same search over   *)
(* isValidPlacement.                                                       *)
(***************************************************************************)
RECURSIVE fillNums2D(_, _, _, _)
fillNums2D(b, idx, numbers, rec) ==
  IF numbers = << >> THEN { [ok |-> FALSE, board |-> b] }
  ELSE
    LET num == Head(numbers) IN
    IF isValidPlacement(b, RowOf(idx), ColOf(idx), num)
    THEN LET placed == [b EXCEPT ![idx] = num] IN
         { r \in rec[placed] : r.ok }
            \cup UNION { fillNums2D([r.board EXCEPT ![idx] = 0], idx, Tail(numbers), rec) :
                         r \in { q \in rec[placed] : ~q.ok } }
    ELSE fillNums2D(b, idx, Tail(numbers), rec)

fillBoard2D(board, orders, rec) ==
  LET empty == findEmpty(board) IN
  IF empty = -1 THEN { [ok |-> TRUE, board |-> board] }
  ELSE UNION { fillNums2D(board, empty, numbers, rec) : numbers \in orders }

RECURSIVE solve2D(_, _, _)
RECURSIVE solveNums2D(_, _, _, _, _)
solveNums2D(boardCopy, empty, num, count, limit) ==
  IF num > N THEN count
  ELSE CHOOSE out \in { solveNums2D(boardCopy, empty, num + 1, counted, limit) :
                          counted \in { IF isValidPlacement(boardCopy, RowOf(empty),
                                                            ColOf(empty), num)
                                         THEN solve2D([boardCopy EXCEPT ![empty] = num],
                                                      count, limit)
                                         ELSE count } } : TRUE

solve2D(boardCopy, count, limit) ==
  IF count >= limit THEN count
  ELSE CHOOSE out \in { IF empty = -1 THEN count + 1
                          ELSE solveNums2D(boardCopy, empty, 1, count, limit) :
                          empty \in { findEmpty(boardCopy) } } : TRUE

countSolutions2D(board, limit) == solve2D(board, 0, limit)

(***************************************************************************)
(* The recursion of fillBoard, tabulated from the deepest calls upwards.   *)
(* fillCalls lists, depth by depth, the boards the recursive calls are     *)
(* made on (one placement per level: every digit the validity test lets    *)
(* through); fillTable gives every such board its set of outcomes, the     *)
(* table of depth d + 1 being the rec of depth d.                          *)
(***************************************************************************)
placedBoards(board, eng) ==
  LET idx == findEmpty(board) IN
  IF idx = -1 THEN {}
  ELSE { [board EXCEPT ![idx] = num] :
           num \in { n \in Digits :
                       IF eng = "bitmask" THEN isValid(board, idx, n)
                       ELSE isValidPlacement(board, RowOf(idx), ColOf(idx), n) } }

RECURSIVE fillCalls(_, _)
fillCalls(eng, calls) ==
  LET deeper == UNION { placedBoards(b, eng) : b \in calls[Len(calls)] } IN
  IF deeper = {} THEN calls ELSE fillCalls(eng, Append(calls, deeper))

RECURSIVE fillTable(_, _, _, _)
fillTable(eng, orders, calls, rec) ==
  IF calls = << >> THEN rec
  ELSE LET table == [b \in calls[Len(calls)] |->
                       IF eng = "bitmask" THEN fillBoard(b, orders, rec)
                       ELSE fillBoard2D(b, orders, rec)]
       IN \* the comparison makes TLC build the table before going one level up
          IF table = table
          THEN fillTable(eng, orders, SubSeq(calls, 1, Len(calls) - 1), table)
          ELSE table

\* generateSolution: the boards fillBoard can leave in a fresh empty board
\* (the return value of fillBoard is ignored by the source).
generateSolution(eng, orders) ==
  { r.board : r \in fillTable(eng, orders, fillCalls(eng, << { EmptyBoard } >>),
                              << >>)[EmptyBoard] }

(***************************************************************************)
(* generatePuzzleAttempt: symmetric pairs and the removal loop.            *)
(***************************************************************************)
\* coords before shuffling: 0, 1, ..., 80 (row-major in both engines).
CoordArray == [i \in 1 .. NN |-> i - 1]

\* shuffleArray(coords) under the bounded random source.
coordOrder(k) == shuffleArray(CoordArray, ConstDraw(NN, k))

CoordOrders == { coordOrder(k) : k \in RandomValues }

\* Mirror with the column kept: (8 - r) * 9 + c, a reflection, not a rotation.
MirrorRow(idx) == (N - 1 - RowOf(idx)) * N + ColOf(idx)

\* (8 - r) * 9 + (8 - c)
Mirror(idx) == (N - 1 - RowOf(idx)) * N + (N - 1 - ColOf(idx))

\* The loop that builds pairs from the shuffled coords, skipping visited cells.
RECURSIVE buildPairs(_, _, _)
buildPairs(coords, visited, acc) ==
  IF coords = << >> THEN acc
  ELSE LET idx == Head(coords)
           sidx == Mirror(idx)
       IN IF idx \in visited THEN buildPairs(Tail(coords), visited, acc)
          ELSE buildPairs(Tail(coords), visited \cup {idx, sidx},
                          Append(acc, IF idx = sidx THEN << idx >> ELSE << idx, sidx >>))

\* grid with the cells of the sequence ps set to 0.
RECURSIVE Blank(_, _)
Blank(grid, ps) ==
  IF ps = << >> THEN grid ELSE Blank([grid EXCEPT ![Head(ps)] = 0], Tail(ps))

\* The cells of pair that are not blank in grid, in order.
RECURSIVE NonBlank(_, _)
NonBlank(grid, pair) ==
  IF pair = << >> THEN << >>
  ELSE IF grid[Head(pair)] # 0 THEN << Head(pair) >> \o NonBlank(grid, Tail(pair))
       ELSE NonBlank(grid, Tail(pair))

\* removalStep with the uniqueness test dropped: every removal is kept.
removalStepKeepAll(cfg, st, pair) ==
  IF st.removed >= cfg.maxRemove THEN [st EXCEPT !.stop = TRUE]
  ELSE LET backups == NonBlank(st.puzzle, pair)
           blanked == Blank(st.puzzle, backups)
       IN IF Len(backups) = 0 THEN st
          ELSE [st EXCEPT !.puzzle = blanked, !.removed = st.removed + Len(backups)]

\* One iteration of the removal loop of the bitmask engine on the next pair.
\* st = [puzzle, removed, stop]; stop is set by the break.
removalStep(cfg, st, pair) ==
  IF st.removed >= cfg.maxRemove THEN [st EXCEPT !.stop = TRUE]
  ELSE LET backups == NonBlank(st.puzzle, pair)
           blanked == Blank(st.puzzle, backups)
       IN IF Len(backups) = 0 THEN st
          ELSE IF countSolutions(blanked, 2) = 1
               THEN [st EXCEPT !.puzzle = blanked, !.removed = st.removed + Len(backups)]
               ELSE st

\* One iteration of the removal loop of the array engine.
removalStep2D(cfg, st, pair) ==
  IF st.removed >= cfg.maxRemove THEN [st EXCEPT !.stop = TRUE]
  ELSE IF st.removed + Len(pair) > cfg.maxRemove + 1 THEN st
  ELSE IF \E k \in 1 .. Len(pair) : st.puzzle[pair[k]] = 0 THEN st
  ELSE LET blanked == Blank(st.puzzle, pair)
       IN IF countSolutions2D(blanked, 2) = 1
          THEN [st EXCEPT !.puzzle = blanked, !.removed = st.removed + Len(pair)]
          ELSE st

(***************************************************************************)
(* Logic solver, bitmask engine.  A solver state is [board, cand, prog]:   *)
(* the Int8Array board, the Uint16Array of candidate masks (as sets of     *)
(* digits) and the progress flag of the running technique.                 *)
(***************************************************************************)
\* Left fold of Op over a sequence: a for-of loop with its state threaded.
RECURSIVE FoldSeq(_, _, _)
FoldSeq(FoldOp(_, _), foldAcc, foldSeq) ==
  IF foldSeq = << >> THEN foldAcc
  ELSE \* foldNext is bound to the state after this iteration, worked out once
       CHOOSE out \in { FoldSeq(FoldOp, foldNext, Tail(foldSeq)) :
                          foldNext \in { FoldOp(foldAcc, Head(foldSeq)) } } : TRUE

\* Left fold of Op over lo, lo + 1, ..., hi: a counting for loop.
RECURSIVE FoldRange(_, _, _, _)
FoldRange(FoldOp(_, _), foldAcc, foldLo, foldHi) ==
  IF foldLo > foldHi THEN foldAcc
  ELSE CHOOSE out \in { FoldRange(FoldOp, foldNext, foldLo + 1, foldHi) :
                          foldNext \in { FoldOp(foldAcc, foldLo) } } : TRUE

\* The elements of seq that satisfy Test, in order (Array.prototype.filter).
RECURSIVE Filter(_, _)
Filter(FilterTest(_), filterSeq) ==
  IF filterSeq = << >> THEN << >>
  ELSE IF FilterTest(Head(filterSeq))
       THEN << Head(filterSeq) >> \o Filter(FilterTest, Tail(filterSeq))
       ELSE Filter(FilterTest, Tail(filterSeq))

Range(seq) == { seq[k] : k \in 1 .. Len(seq) }

\* popcount of a mask: the number of digits in it.
popcount(mask) == Cardinality(mask)

\* lsb of a mask, as a digit: the lowest digit in it.
lsb(mask) == CHOOSE v \in mask : \A w \in mask : v <= w

\* The PEERS row of a cell in the order the table is filled: row and column
\* cells alternately for x = 0..8, then the remaining cells of the box.
PeerList(i) ==
  LET r == RowOf(i)
      c == ColOf(i)
      line == FoldRange(LAMBDA acc, x :
                          LET a == IF x # c THEN Append(acc, r * N + x) ELSE acc
                          IN IF x # r THEN Append(a, x * N + c) ELSE a,
                        << >>, 0, N - 1)
      box == FoldRange(LAMBDA acc, k :
                         LET cell == (BoxStart(r) + (k \div BoxSize)) * N
                                       + BoxStart(c) + (k % BoxSize)
                         IN IF cell # i /\ cell \notin Range(acc) THEN Append(acc, cell) ELSE acc,
                       line, 0, BoxSize * BoxSize - 1)
  IN box

PEERSEQ == [i \in Cells |-> PeerList(i)]

\* getAllUnits: rows, then columns, then boxes, each a sequence of cell indices.
getAllUnits ==
  [u \in 1 .. (3 * N) |->
     IF u <= N THEN [k \in 1 .. N |-> (u - 1) * N + (k - 1)]
     ELSE IF u <= 2 * N THEN [k \in 1 .. N |-> (k - 1) * N + (u - N - 1)]
     ELSE LET b == u - 2 * N - 1
              start == (b \div BoxSize) * BoxSize * N + (b % BoxSize) * BoxSize
          IN [k \in 1 .. N |-> start + ((k - 1) \div BoxSize) * N + ((k - 1) % BoxSize)]]

\* Candidate initialisation of solvePuzzleWithLogic (and of getCandidates).
initCandidates(board) ==
  [i \in Cells |-> IF board[i] = 0 THEN { n \in Digits : isValid(board, i, n) } ELSE {}]

\* eliminateFromPeers leaving the candidates of the peers as they are.
eliminateFromPeersNone(candidates, idx, mask) == candidates

eliminateFromPeers(candidates, idx, mask) ==
  [p \in Cells |-> IF p \in PEERS[idx] THEN candidates[p] \ mask ELSE candidates[p]]

\* board[idx] = val; candidates[idx] = 0; eliminateFromPeers; progress = true.
\* over collects the cells that held a digit when they were written to.
Place(s, idx, val) ==
  [board |-> [s.board EXCEPT ![idx] = val],
   cand |-> eliminateFromPeers([s.cand EXCEPT ![idx] = {}], idx, {val}),
   prog |-> TRUE,
   over |-> IF s.board[idx] # 0 THEN s.over \cup { idx } ELSE s.over]

\* ElimIf clearing the bits without setting progress.
ElimIfSilent(s, idx, mask) ==
  IF s.board[idx] = 0 /\ s.cand[idx] \cap mask # {}
  THEN [s EXCEPT !.cand[idx] = @ \ mask]
  ELSE s

\* if (board[idx] === 0 && (candidates[idx] & mask)) { candidates[idx] &= ~mask; progress = true }
ElimIf(s, idx, mask) ==
  IF s.board[idx] = 0 /\ s.cand[idx] \cap mask # {}
  THEN [s EXCEPT !.cand[idx] = @ \ mask, !.prog = TRUE]
  ELSE s

\* applyNakedSingles finding no cell with a single candidate.
applyNakedSinglesNone(s0) == [s0 EXCEPT !.prog = FALSE]

applyNakedSingles(s0) ==
  FoldRange(LAMBDA s, i :
              IF s.board[i] = 0 /\ popcount(s.cand[i]) = 1
              THEN Place(s, i, lsb(s.cand[i]))
              ELSE s,
            [s0 EXCEPT !.prog = FALSE], 0, NN - 1)

\* One unit of applyHiddenSingles: counts and lastIdx are taken once, then the
\* digits with count 1 are placed in order.  recheck: the "board[idx] === 0"
\* test made for columns and boxes but not for rows.
hiddenSinglesUnit(s0, unit, recheck) ==
  LET places == [n \in Digits |->
                   { idx \in Range(unit) : s0.board[idx] = 0 /\ n \in s0.cand[idx] }]
  IN FoldRange(LAMBDA s, n :
                 IF Cardinality(places[n]) = 1
                 THEN LET idx == CHOOSE x \in places[n] : TRUE
                      IN IF recheck => s.board[idx] = 0 THEN Place(s, idx, n) ELSE s
                 ELSE s,
               s0, 1, N)

applyHiddenSingles(s0) ==
  FoldRange(LAMBDA s, u : hiddenSinglesUnit(s, getAllUnits[u], u > N),
            [s0 EXCEPT !.prog = FALSE], 1, 3 * N)

\* Index pairs i < j and triples i < j < k below n, in the order of the nested loops.
IndexPairs(n) ==
  FoldRange(LAMBDA acc, i :
              FoldRange(LAMBDA a, j : Append(a, << i, j >>), acc, i + 1, n),
            << >>, 1, n)

IndexTriples(n) ==
  FoldRange(LAMBDA acc, i :
              FoldRange(LAMBDA a, j :
                          FoldRange(LAMBDA b, k : Append(b, << i, j, k >>), a, j + 1, n),
                        acc, i + 1, n),
            << >>, 1, n)

\* Eliminate mask from the empty cells of unit other than the cells in keep.
elimFromUnit(s0, unit, keep, mask) ==
  FoldSeq(LAMBDA s, idx : IF idx \in keep THEN s ELSE ElimIf(s, idx, mask), s0, unit)

\* One unit of applyNakedSubsets: masks and indices are collected once.
nakedSubsetsUnit(s0, unit) ==
  LET indices == Filter(LAMBDA idx : s0.board[idx] = 0, unit)
      masks == [k \in 1 .. Len(indices) |-> s0.cand[indices[k]]]
      pairsDone ==
        FoldSeq(LAMBDA s, ij :
                  IF masks[ij[1]] = masks[ij[2]] /\ popcount(masks[ij[1]]) = 2
                  THEN elimFromUnit(s, unit, { indices[ij[1]], indices[ij[2]] }, masks[ij[1]])
                  ELSE s,
                s0, IndexPairs(Len(indices)))
  IN FoldSeq(LAMBDA s, t :
               LET combined == masks[t[1]] \cup masks[t[2]] \cup masks[t[3]]
               IN IF popcount(combined) = 3
                  THEN elimFromUnit(s, unit,
                                    { indices[t[1]], indices[t[2]], indices[t[3]] }, combined)
                  ELSE s,
             pairsDone, IndexTriples(Len(indices)))

applyNakedSubsets(s0) ==
  FoldRange(LAMBDA s, u : nakedSubsetsUnit(s, getAllUnits[u]),
            [s0 EXCEPT !.prog = FALSE], 1, 3 * N)

\* One unit of applyHiddenSubsets: pairs only.
hiddenSubsetsUnit(s0, unit) ==
  LET places == [n \in Digits |->
                   Filter(LAMBDA idx : s0.board[idx] = 0 /\ n \in s0.cand[idx], unit)]
  IN FoldSeq(LAMBDA s, nn :
               IF /\ Len(places[nn[1]]) = 2
                  /\ Len(places[nn[2]]) = 2
                  /\ places[nn[1]] = places[nn[2]]
               THEN FoldSeq(LAMBDA t, idx :
                              IF t.cand[idx] \ { nn[1], nn[2] } # {}
                              THEN [t EXCEPT !.cand[idx] = @ \cap { nn[1], nn[2] },
                                             !.prog = TRUE]
                              ELSE t,
                            s, places[nn[1]])
               ELSE s,
             s0, IndexPairs(N))

applyHiddenSubsets(s0) ==
  FoldRange(LAMBDA s, u : hiddenSubsetsUnit(s, getAllUnits[u]),
            [s0 EXCEPT !.prog = FALSE], 1, 3 * N)

\* applyPointingPairs for box b and digit n.
pointingBoxDigit(s0, b, n) ==
  LET startR == (b \div BoxSize) * BoxSize
      startC == (b % BoxSize) * BoxSize
      hits == { rc \in (0 .. (BoxSize - 1)) \X (0 .. (BoxSize - 1)) :
                  LET idx == (startR + rc[1]) * N + (startC + rc[2])
                  IN s0.board[idx] = 0 /\ n \in s0.cand[idx] }
      rows == { rc[1] : rc \in hits }
      cols == { rc[2] : rc \in hits }
      afterRow ==
        IF popcount(rows) = 1
        THEN LET absR == startR + lsb(rows)
             IN FoldRange(LAMBDA s, c :
                            IF c < startC \/ c >= startC + BoxSize
                            THEN ElimIf(s, absR * N + c, {n}) ELSE s,
                          s0, 0, N - 1)
        ELSE s0
  IN IF hits = {} THEN s0
     ELSE IF popcount(cols) = 1
          THEN LET absC == startC + lsb(cols)
               IN FoldRange(LAMBDA s, r :
                              IF r < startR \/ r >= startR + BoxSize
                              THEN ElimIf(s, r * N + absC, {n}) ELSE s,
                            afterRow, 0, N - 1)
          ELSE afterRow

applyPointingPairs(s0) ==
  FoldRange(LAMBDA s, b :
              FoldRange(LAMBDA t, n : pointingBoxDigit(t, b, n), s, 1, N),
            [s0 EXCEPT !.prog = FALSE], 0, N - 1)

\* Columns of row r (rows of column c) where digit n is a candidate of an empty cell.
rowMask(s, r, n) == { c \in 0 .. (N - 1) : s.board[r * N + c] = 0 /\ n \in s.cand[r * N + c] }

colMask(s, c, n) == { r \in 0 .. (N - 1) : s.board[r * N + c] = 0 /\ n \in s.cand[r * N + c] }

\* The lines 0..8 whose mask has between lo and hi bits, in order, as [line, mask].
linesWith(Mask(_), lo, hi) ==
  FoldRange(LAMBDA acc, x :
              IF popcount(Mask(x)) >= lo /\ popcount(Mask(x)) <= hi
              THEN Append(acc, [line |-> x, mask |-> Mask(x)]) ELSE acc,
            << >>, 0, N - 1)

\* Eliminate n from the columns in cols, in every row not in rows.
elimColsOutsideRows(s0, n, cols, rows) ==
  FoldRange(LAMBDA s, r :
              IF r \in rows THEN s
              ELSE FoldRange(LAMBDA t, c : IF c \in cols THEN ElimIf(t, r * N + c, {n}) ELSE t,
                             s, 0, N - 1),
            s0, 0, N - 1)

\* Eliminate n from the rows in rows, in every column not in cols.
elimRowsOutsideCols(s0, n, rows, cols) ==
  FoldRange(LAMBDA s, c :
              IF c \in cols THEN s
              ELSE FoldRange(LAMBDA t, r : IF r \in rows THEN ElimIf(t, r * N + c, {n}) ELSE t,
                             s, 0, N - 1),
            s0, 0, N - 1)

\* Swordfish order: columns outermost (rows outermost for the column-based form).
elimColsOutsideRowsByCol(s0, n, cols, rows) ==
  FoldRange(LAMBDA s, c :
              IF c \notin cols THEN s
              ELSE FoldRange(LAMBDA t, r : IF r \in rows THEN t ELSE ElimIf(t, r * N + c, {n}),
                             s, 0, N - 1),
            s0, 0, N - 1)

elimRowsOutsideColsByRow(s0, n, rows, cols) ==
  FoldRange(LAMBDA s, r :
              IF r \notin rows THEN s
              ELSE FoldRange(LAMBDA t, c : IF c \in cols THEN t ELSE ElimIf(t, r * N + c, {n}),
                             s, 0, N - 1),
            s0, 0, N - 1)

xWingDigit(s0, n) ==
  LET rRows == linesWith(LAMBDA r : rowMask(s0, r, n), 2, 2)
      afterRows ==
        FoldSeq(LAMBDA s, ij :
                  IF rRows[ij[1]].mask = rRows[ij[2]].mask
                  THEN elimColsOutsideRows(s, n, rRows[ij[1]].mask,
                                           { rRows[ij[1]].line, rRows[ij[2]].line })
                  ELSE s,
                s0, IndexPairs(Len(rRows)))
      cCols == linesWith(LAMBDA c : colMask(afterRows, c, n), 2, 2)
  IN FoldSeq(LAMBDA s, ij :
               IF cCols[ij[1]].mask = cCols[ij[2]].mask
               THEN elimRowsOutsideCols(s, n, cCols[ij[1]].mask,
                                        { cCols[ij[1]].line, cCols[ij[2]].line })
               ELSE s,
             afterRows, IndexPairs(Len(cCols)))

applyXWing(s0) ==
  FoldRange(LAMBDA s, n : xWingDigit(s, n), [s0 EXCEPT !.prog = FALSE], 1, N)

swordfishDigit(s0, n) ==
  LET rRows == linesWith(LAMBDA r : rowMask(s0, r, n), 2, 3)
      afterRows ==
        FoldSeq(LAMBDA s, t :
                  LET combined == rRows[t[1]].mask \cup rRows[t[2]].mask \cup rRows[t[3]].mask
                  IN IF popcount(combined) = 3
                     THEN elimColsOutsideRowsByCol(s, n, combined,
                            { rRows[t[1]].line, rRows[t[2]].line, rRows[t[3]].line })
                     ELSE s,
                s0, IndexTriples(Len(rRows)))
      cCols == linesWith(LAMBDA c : colMask(afterRows, c, n), 2, 3)
  IN FoldSeq(LAMBDA s, t :
               LET combined == cCols[t[1]].mask \cup cCols[t[2]].mask \cup cCols[t[3]].mask
               IN IF popcount(combined) = 3
                  THEN elimRowsOutsideColsByRow(s, n, combined,
                         { cCols[t[1]].line, cCols[t[2]].line, cCols[t[3]].line })
                  ELSE s,
             afterRows, IndexTriples(Len(cCols)))

applySwordfish(s0) ==
  FoldRange(LAMBDA s, n : swordfishDigit(s, n), [s0 EXCEPT !.prog = FALSE], 1, N)

isSeenBy(idx1, idx2) ==
  \/ RowOf(idx1) = RowOf(idx2)
  \/ ColOf(idx1) = ColOf(idx2)
  \/ /\ RowOf(idx1) \div BoxSize = RowOf(idx2) \div BoxSize
     /\ ColOf(idx1) \div BoxSize = ColOf(idx2) \div BoxSize

\* applyXYWing for pivot i.
xyWingPivot(s0, i) ==
  IF s0.board[i] # 0 \/ popcount(s0.cand[i]) # 2 THEN s0
  ELSE
    LET maskXY == s0.cand[i]
        potentialWings ==
          Filter(LAMBDA peer : s0.board[peer] = 0 /\ popcount(s0.cand[peer]) = 2, PEERSEQ[i])
    IN FoldRange(LAMBDA s, j :
         LET w1 == potentialWings[j]
             common == s.cand[w1] \cap maskXY
             zBit == s.cand[w1] \ common
         IN IF popcount(common) # 1 THEN s
            ELSE FoldRange(LAMBDA t, m :
                   LET w2 == potentialWings[m]
                       common2 == t.cand[w2] \cap maskXY
                   IN IF \/ popcount(common2) # 1
                         \/ common = common2
                         \/ t.cand[w2] \cap zBit = {}
                      THEN t
                      ELSE FoldSeq(LAMBDA q, target :
                                     IF target = i \/ target = w2 THEN q
                                     ELSE IF /\ q.board[target] = 0
                                             /\ q.cand[target] \cap zBit # {}
                                             /\ isSeenBy(target, w2)
                                          THEN [q EXCEPT !.cand[target] = @ \ zBit,
                                                         !.prog = TRUE]
                                          ELSE q,
                                   t, PEERSEQ[w1]),
                 s, j + 1, Len(potentialWings)),
       s0, 1, Len(potentialWings))

applyXYWing(s0) ==
  FoldRange(LAMBDA s, i : xyWingPivot(s, i), [s0 EXCEPT !.prog = FALSE], 0, NN - 1)

\* The techniques in the order solvePuzzleWithLogic tries them, with their level.
techLevel == << 1, 2, 3, 3, 4, 5, 6, 7 >>

applyTechnique(k, s) ==
  CASE k = 1 -> applyNakedSingles(s)
    [] k = 2 -> applyHiddenSingles(s)
    [] k = 3 -> applyNakedSubsets(s)
    [] k = 4 -> applyHiddenSubsets(s)
    [] k = 5 -> applyPointingPairs(s)
    [] k = 6 -> applyXWing(s)
    [] k = 7 -> applySwordfish(s)
    [] OTHER -> applyXYWing(s)

\* techMap: the level names, shared levels sharing a name.
techName(l) ==
  CASE l = 1 -> "Naked Single"
    [] l = 2 -> "Hidden Single"
    [] l = 3 -> "Naked/Hidden Subsets"
    [] l = 4 -> "Pointing Pairs"
    [] l = 5 -> "X-Wing"
    [] l = 6 -> "Swordfish"
    [] OTHER -> "XY-Wing"

\* Set.add on the insertion-ordered set of the levels used so far.
\* AddUsed with techniquesUsed an array that is pushed to on every progress.
AddUsedAlways(used, l) == Append(used, l)

AddUsed(used, l) == IF l \in Range(used) THEN used ELSE Append(used, l)

\* One pass of the while loop from technique k on: the first technique that
\* reports progress ends the pass (continue); none: stuck.  t is the state
\* technique k leaves.
RECURSIVE solverPass(_, _)
solverPassNext(t, k) ==
  IF t.prog THEN [s |-> t, level |-> techLevel[k]] ELSE solverPass(t, k + 1)

solverPass(s, k) ==
  IF k > Len(techLevel) THEN [s |-> s, level |-> 0]
  ELSE CHOOSE out \in { solverPassNext(t, k) : t \in { applyTechnique(k, s) } } : TRUE

\* The while (!stuck) loop with stats = [maxLevel, techniquesUsed]; used holds
\* the levels whose names were added, in insertion order.  p is the pass made.
RECURSIVE solverLoop(_, _, _)
solverLoopNext(p, maxLevel, used) ==
  IF p.level = 0 THEN [s |-> p.s, maxLevel |-> maxLevel, used |-> used]
  ELSE solverLoop(p.s, IF p.level > maxLevel THEN p.level ELSE maxLevel,
                  AddUsed(used, p.level))

solverLoop(s, maxLevel, used) ==
  CHOOSE out \in { solverLoopNext(p, maxLevel, used) : p \in { solverPass(s, 1) } } : TRUE

\* The return value of solvePuzzleWithLogic from the final loop state.
solverStats(r) ==
  [solved |-> \A i \in Cells : r.s.board[i] # 0,
   maxLevel |-> r.maxLevel,
   techniquesUsed |-> [k \in 1 .. Len(r.used) |-> techName(r.used[k])]]

solvePuzzleWithLogic(board2D) ==
  solverStats(solverLoop([board |-> board2D, cand |-> initCandidates(board2D),
                          prog |-> FALSE, over |-> {}], 0, << >>))

(***************************************************************************)
(* Logic solver, array engine.  The same solver state [board, cand, prog]; *)
(* cand[r * N + c] is the Set cands[r][c], whose iteration order is the    *)
(* ascending order in which getCandidates adds the digits.                 *)
(***************************************************************************)
getCandidates(board) ==
  [i \in Cells |->
     IF board[i] # 0 THEN {}
     ELSE { n \in Digits : isValidPlacement(board, RowOf(i), ColOf(i), n) }]

\* eliminateFromPeers2D without the loop over the box.
eliminateFromPeers2DNoBox(cands, row, col, val) ==
  [p \in Cells |-> IF RowOf(p) = row \/ ColOf(p) = col THEN cands[p] \ {val} ELSE cands[p]]

\* Deletes val from the whole row, the whole column and the whole box.
eliminateFromPeers2D(cands, row, col, val) ==
  [p \in Cells |->
     IF \/ RowOf(p) = row
        \/ ColOf(p) = col
        \/ /\ BoxStart(RowOf(p)) = BoxStart(row)
           /\ BoxStart(ColOf(p)) = BoxStart(col)
     THEN cands[p] \ {val} ELSE cands[p]]

\* board[r][c] = val; cands[r][c].clear(); eliminateFromPeers; progress = true.
Place2D(s, idx, val) ==
  [board |-> [s.board EXCEPT ![idx] = val],
   cand |-> eliminateFromPeers2D([s.cand EXCEPT ![idx] = {}], RowOf(idx), ColOf(idx), val),
   prog |-> TRUE,
   over |-> IF s.board[idx] # 0 THEN s.over \cup { idx } ELSE s.over]

\* Delete2D reporting progress whether or not a value was deleted.
Delete2DAlways(s, idx, vals) == [s EXCEPT !.cand[idx] = @ \ vals, !.prog = TRUE]

\* for (const v of vals) if (cands[r][c].delete(v)) progress = true
Delete2D(s, idx, vals) ==
  IF s.cand[idx] \cap vals # {}
  THEN [s EXCEPT !.cand[idx] = @ \ vals, !.prog = TRUE]
  ELSE s

\* getUnits: rows, then columns, then boxes, each a sequence of cells.
getUnits ==
  [u \in 1 .. (3 * N) |->
     IF u <= N THEN [k \in 1 .. N |-> (u - 1) * N + (k - 1)]
     ELSE IF u <= 2 * N THEN [k \in 1 .. N |-> (k - 1) * N + (u - N - 1)]
     ELSE LET br == (u - 2 * N - 1) \div BoxSize
              bc == (u - 2 * N - 1) % BoxSize
          IN [k \in 1 .. N |->
                (br * BoxSize + ((k - 1) \div BoxSize)) * N + bc * BoxSize + ((k - 1) % BoxSize)]]

\* combinations(arr, k): with the first element first, then without it.
RECURSIVE combinations(_, _)
combinations(arr, k) ==
  IF k = 0 THEN << << >> >>
  ELSE IF Len(arr) < k THEN << >>
  ELSE LET withFirst == combinations(Tail(arr), k - 1)
       IN [j \in 1 .. Len(withFirst) |-> << Head(arr) >> \o withFirst[j]]
            \o combinations(Tail(arr), k)

applyNakedSingles2D(s0) ==
  FoldRange(LAMBDA s, i :
              IF s.board[i] = 0 /\ Cardinality(s.cand[i]) = 1
              THEN Place2D(s, i, CHOOSE v \in s.cand[i] : TRUE)
              ELSE s,
            [s0 EXCEPT !.prog = FALSE], 0, NN - 1)

applyHiddenSingles2D(s0) ==
  FoldRange(LAMBDA s, u :
              FoldRange(LAMBDA t, n :
                          LET places == Filter(LAMBDA idx : n \in t.cand[idx], getUnits[u])
                          IN IF Len(places) = 1 THEN Place2D(t, places[1], n) ELSE t,
                        s, 1, N),
            [s0 EXCEPT !.prog = FALSE], 1, 3 * N)

findNakedSubset(s0, unit, size) ==
  LET cells == Filter(LAMBDA idx : /\ Cardinality(s0.cand[idx]) >= 2
                                   /\ Cardinality(s0.cand[idx]) <= size, unit)
  IN IF Len(cells) < size THEN s0
     ELSE FoldSeq(LAMBDA s, combo :
                    LET unionSet == UNION { s.cand[idx] : idx \in Range(combo) }
                    IN IF Cardinality(unionSet) = size
                       THEN FoldSeq(LAMBDA t, idx :
                                      IF idx \in Range(combo) THEN t
                                      ELSE Delete2D(t, idx, unionSet),
                                    s, unit)
                       ELSE s,
                  s0, combinations(cells, size))

applyNakedSubsets2D(s0) ==
  FoldRange(LAMBDA s, u :
              findNakedSubset(findNakedSubset(s, getUnits[u], 2), getUnits[u], 3),
            [s0 EXCEPT !.prog = FALSE], 1, 3 * N)

findHiddenSubset(s0, unit, size) ==
  LET candidateCells == [n \in Digits |-> Filter(LAMBDA idx : n \in s0.cand[idx], unit)]
      candidateKeys ==
        FoldRange(LAMBDA acc, n :
                    IF Len(candidateCells[n]) >= 2 /\ Len(candidateCells[n]) <= size
                    THEN Append(acc, n) ELSE acc,
                  << >>, 1, N)
  IN IF Len(candidateKeys) < size THEN s0
     ELSE FoldSeq(LAMBDA s, combo :
                    LET cellSet == FoldSeq(LAMBDA acc, n :
                                             FoldSeq(LAMBDA a, idx :
                                                       IF idx \in Range(a) THEN a
                                                       ELSE Append(a, idx),
                                                     acc, candidateCells[n]),
                                           << >>, combo)
                    IN IF Len(cellSet) = size
                       THEN FoldSeq(LAMBDA t, idx :
                                      Delete2D(t, idx, t.cand[idx] \ Range(combo)),
                                    s, cellSet)
                       ELSE s,
                  s0, combinations(candidateKeys, size))

applyHiddenSubsets2D(s0) ==
  FoldRange(LAMBDA s, u :
              findHiddenSubset(findHiddenSubset(s, getUnits[u], 2), getUnits[u], 3),
            [s0 EXCEPT !.prog = FALSE], 1, 3 * N)

\* First half of applyPointingPairs: box (br, bc) and digit n.
pointingBoxDigit2D(s0, br, bc, n) ==
  LET boxCells == [k \in 1 .. N |->
                     (br * BoxSize + ((k - 1) \div BoxSize)) * N
                       + bc * BoxSize + ((k - 1) % BoxSize)]
      places == Filter(LAMBDA idx : n \in s0.cand[idx], boxCells)
      rows == { RowOf(places[k]) : k \in 1 .. Len(places) }
      cols == { ColOf(places[k]) : k \in 1 .. Len(places) }
      afterRow ==
        IF Cardinality(rows) = 1
        THEN LET row == CHOOSE r \in rows : TRUE
             IN FoldRange(LAMBDA s, c :
                            IF c >= bc * BoxSize /\ c < bc * BoxSize + BoxSize THEN s
                            ELSE Delete2D(s, row * N + c, {n}),
                          s0, 0, N - 1)
        ELSE s0
  IN IF Len(places) < 2 \/ Len(places) > BoxSize THEN s0
     ELSE IF Cardinality(cols) = 1
          THEN LET col == CHOOSE c \in cols : TRUE
               IN FoldRange(LAMBDA s, r :
                              IF r >= br * BoxSize /\ r < br * BoxSize + BoxSize THEN s
                              ELSE Delete2D(s, r * N + col, {n}),
                            afterRow, 0, N - 1)
          ELSE afterRow

\* Second half (box-line reduction), row r and digit n.
boxLineRow(s0, r, n) ==
  LET cols == Filter(LAMBDA c : n \in s0.cand[r * N + c], [k \in 1 .. N |-> k - 1])
      boxes == { cols[k] \div BoxSize : k \in 1 .. Len(cols) }
  IN IF Len(cols) < 2 \/ Len(cols) > BoxSize \/ Cardinality(boxes) # 1 THEN s0
     ELSE LET bc == CHOOSE b \in boxes : TRUE
              br == r \div BoxSize
          IN FoldRange(LAMBDA s, rr :
                         IF rr = r THEN s
                         ELSE FoldRange(LAMBDA t, cc : Delete2D(t, rr * N + cc, {n}),
                                        s, bc * BoxSize, bc * BoxSize + BoxSize - 1),
                       s0, br * BoxSize, br * BoxSize + BoxSize - 1)

\* Second half, column c and digit n.
boxLineCol(s0, c, n) ==
  LET rows == Filter(LAMBDA r : n \in s0.cand[r * N + c], [k \in 1 .. N |-> k - 1])
      boxes == { rows[k] \div BoxSize : k \in 1 .. Len(rows) }
  IN IF Len(rows) < 2 \/ Len(rows) > BoxSize \/ Cardinality(boxes) # 1 THEN s0
     ELSE LET br == CHOOSE b \in boxes : TRUE
              bc == c \div BoxSize
          IN FoldRange(LAMBDA s, rr :
                         FoldRange(LAMBDA t, cc :
                                     IF cc = c THEN t ELSE Delete2D(t, rr * N + cc, {n}),
                                   s, bc * BoxSize, bc * BoxSize + BoxSize - 1),
                       s0, br * BoxSize, br * BoxSize + BoxSize - 1)

applyPointingPairs2D(s0) ==
  LET boxesDone ==
        FoldRange(LAMBDA s, b :
                    FoldRange(LAMBDA t, n :
                                pointingBoxDigit2D(t, b \div BoxSize, b % BoxSize, n),
                              s, 1, N),
                  [s0 EXCEPT !.prog = FALSE], 0, N - 1)
  IN FoldRange(LAMBDA s, n :
                 FoldRange(LAMBDA t, c : boxLineCol(t, c, n),
                           FoldRange(LAMBDA t, r : boxLineRow(t, r, n), s, 0, N - 1),
                           0, N - 1),
               boxesDone, 1, N)

\* Columns of row r (rows of column c) whose candidate set has n.
rowCols2D(s, r, n) == { c \in 0 .. (N - 1) : n \in s.cand[r * N + c] }

colRows2D(s, c, n) == { r \in 0 .. (N - 1) : n \in s.cand[r * N + c] }

\* X-Wing for digit n: rowPositions and colPositions are each collected once.
xWingDigit2D(s0, n) ==
  LET rowPositions == linesWith(LAMBDA r : rowCols2D(s0, r, n), 2, 2)
      afterRows ==
        FoldSeq(LAMBDA s, ij :
                  IF rowPositions[ij[1]].mask = rowPositions[ij[2]].mask
                  THEN FoldRange(LAMBDA t, r :
                                   IF r = rowPositions[ij[1]].line \/ r = rowPositions[ij[2]].line
                                   THEN t
                                   ELSE FoldSeq(LAMBDA q, c : Delete2D(q, r * N + c, {n}), t,
                                                << lsb(rowPositions[ij[1]].mask),
                                                   lsb(rowPositions[ij[1]].mask
                                                         \ { lsb(rowPositions[ij[1]].mask) }) >>),
                                 s, 0, N - 1)
                  ELSE s,
                s0, IndexPairs(Len(rowPositions)))
      colPositions == linesWith(LAMBDA c : colRows2D(afterRows, c, n), 2, 2)
  IN FoldSeq(LAMBDA s, ij :
               IF colPositions[ij[1]].mask = colPositions[ij[2]].mask
               THEN FoldRange(LAMBDA t, c :
                                IF c = colPositions[ij[1]].line \/ c = colPositions[ij[2]].line
                                THEN t
                                ELSE FoldSeq(LAMBDA q, r : Delete2D(q, r * N + c, {n}), t,
                                             << lsb(colPositions[ij[1]].mask),
                                                lsb(colPositions[ij[1]].mask
                                                      \ { lsb(colPositions[ij[1]].mask) }) >>),
                              s, 0, N - 1)
               ELSE s,
             afterRows, IndexPairs(Len(colPositions)))

applyXWing2D(s0) ==
  FoldRange(LAMBDA s, n : xWingDigit2D(s, n), [s0 EXCEPT !.prog = FALSE], 1, N)

\* countSetBits (Hamming weight) of a mask kept as a set of bit positions.
countSetBits(mask) == Cardinality(mask)

eliminateFromColumns(s0, val, colMask2D, exceptRows) ==
  FoldRange(LAMBDA s, c :
              IF c \notin colMask2D THEN s
              ELSE FoldRange(LAMBDA t, r :
                               IF r \in exceptRows THEN t ELSE Delete2D(t, r * N + c, {val}),
                             s, 0, N - 1),
            s0, 0, N - 1)

eliminateFromRows(s0, val, rowMask2D, exceptCols) ==
  FoldRange(LAMBDA s, r :
              IF r \notin rowMask2D THEN s
              ELSE FoldRange(LAMBDA t, c :
                               IF c \in exceptCols THEN t ELSE Delete2D(t, r * N + c, {val}),
                             s, 0, N - 1),
            s0, 0, N - 1)

swordfishDigit2D(s0, n) ==
  LET rowMasks == linesWith(LAMBDA r : rowCols2D(s0, r, n), 2, 3)
      afterRows ==
        FoldSeq(LAMBDA s, t :
                  LET combinedMask == rowMasks[t[1]].mask \cup rowMasks[t[2]].mask
                                        \cup rowMasks[t[3]].mask
                  IN IF countSetBits(combinedMask) = 3
                     THEN eliminateFromColumns(s, n, combinedMask,
                            { rowMasks[t[1]].line, rowMasks[t[2]].line, rowMasks[t[3]].line })
                     ELSE s,
                s0, IndexTriples(Len(rowMasks)))
      colMasks == linesWith(LAMBDA c : colRows2D(afterRows, c, n), 2, 3)
  IN FoldSeq(LAMBDA s, t :
               LET combinedMask == colMasks[t[1]].mask \cup colMasks[t[2]].mask
                                     \cup colMasks[t[3]].mask
               IN IF countSetBits(combinedMask) = 3
                  THEN eliminateFromRows(s, n, combinedMask,
                         { colMasks[t[1]].line, colMasks[t[2]].line, colMasks[t[3]].line })
                  ELSE s,
             afterRows, IndexTriples(Len(colMasks)))

applySwordfish2D(s0) ==
  FoldRange(LAMBDA s, n : swordfishDigit2D(s, n), [s0 EXCEPT !.prog = FALSE], 1, N)

\* getPeers: the rest of the row, then the rest of the column, then the rest
\* of the box, as a sequence of cell indices.
getPeers(row, col) ==
  LET inRow == FoldRange(LAMBDA acc, c : IF c # col THEN Append(acc, row * N + c) ELSE acc,
                         << >>, 0, N - 1)
      inCol == FoldRange(LAMBDA acc, r :
                           IF r # row /\ (r * N + col) \notin Range(acc)
                           THEN Append(acc, r * N + col) ELSE acc,
                         inRow, 0, N - 1)
  IN FoldRange(LAMBDA acc, k :
                 LET cell == (BoxStart(row) + (k \div BoxSize)) * N
                               + BoxStart(col) + (k % BoxSize)
                 IN IF cell \notin Range(acc) /\ cell # row * N + col
                    THEN Append(acc, cell) ELSE acc,
               inCol, 0, BoxSize * BoxSize - 1)

isPeer(r1, c1, r2, c2) ==
  \/ r1 = r2
  \/ c1 = c2
  \/ /\ r1 \div BoxSize = r2 \div BoxSize
     /\ c1 \div BoxSize = c2 \div BoxSize

\* The wings of a pivot holding {keep, other}: its peers with two candidates,
\* keep among them and other not, each with its third value z.
wingsOf(s, pivot, keep, other) ==
  LET two == Filter(LAMBDA w : /\ Cardinality(s.cand[w]) = 2
                               /\ keep \in s.cand[w]
                               /\ other \notin s.cand[w],
                    getPeers(RowOf(pivot), ColOf(pivot)))
  IN [k \in 1 .. Len(two) |->
        [cell |-> two[k], z |-> CHOOSE v \in s.cand[two[k]] : v # keep]]

\* applyXYWing for the pivot cell: wingX and wingY are collected once.
xyWingPivot2D(s0, pivot) ==
  IF Cardinality(s0.cand[pivot]) # 2 THEN s0
  ELSE
    LET xVal == lsb(s0.cand[pivot])
        yVal == lsb(s0.cand[pivot] \ {xVal})
        wingX == wingsOf(s0, pivot, xVal, yVal)
        wingY == wingsOf(s0, pivot, yVal, xVal)
    IN FoldSeq(LAMBDA s, wx :
         FoldSeq(LAMBDA t, wy :
           IF wx.z # wy.z THEN t
           ELSE FoldSeq(LAMBDA q, target :
                          IF wx.z \notin q.cand[target] THEN q
                          ELSE IF target = wx.cell \/ target = wy.cell \/ target = pivot THEN q
                          ELSE IF isPeer(RowOf(target), ColOf(target),
                                         RowOf(wy.cell), ColOf(wy.cell))
                               THEN Delete2D(q, target, {wx.z})
                               ELSE q,
                        t, getPeers(RowOf(wx.cell), ColOf(wx.cell))),
           s, wingY),
         s0, wingX)

applyXYWing2D(s0) ==
  FoldRange(LAMBDA s, i : xyWingPivot2D(s, i), [s0 EXCEPT !.prog = FALSE], 0, NN - 1)

\* The techniques array: level and fn of entry k.
applyTechnique2D(k, s) ==
  CASE k = 1 -> applyNakedSingles2D(s)
    [] k = 2 -> applyHiddenSingles2D(s)
    [] k = 3 -> applyNakedSubsets2D(s)
    [] k = 4 -> applyHiddenSubsets2D(s)
    [] k = 5 -> applyPointingPairs2D(s)
    [] k = 6 -> applyXWing2D(s)
    [] k = 7 -> applySwordfish2D(s)
    [] OTHER -> applyXYWing2D(s)

\* for (const tech of techniques): the first fn returning true breaks.
RECURSIVE solverPass2D(_, _)
solverPassNext2D(t, k) ==
  IF t.prog THEN [s |-> t, level |-> techLevel[k]] ELSE solverPass2D(t, k + 1)

solverPass2D(s, k) ==
  IF k > Len(techLevel) THEN [s |-> s, level |-> 0]
  ELSE CHOOSE out \in { solverPassNext2D(t, k) : t \in { applyTechnique2D(k, s) } } : TRUE

\* while (!stuck)
RECURSIVE solverLoop2D(_, _, _)
solverLoopNext2D(p, maxLevel, used) ==
  IF p.level = 0 THEN [s |-> p.s, maxLevel |-> maxLevel, used |-> used]
  ELSE solverLoop2D(p.s, IF p.level > maxLevel THEN p.level ELSE maxLevel,
                    AddUsed(used, p.level))

solverLoop2D(s, maxLevel, used) ==
  CHOOSE out \in { solverLoopNext2D(p, maxLevel, used) : p \in { solverPass2D(s, 1) } } : TRUE

solvePuzzleWithLogic2D(boardInput) ==
  solverStats(solverLoop2D([board |-> boardInput, cand |-> getCandidates(boardInput),
                            prog |-> FALSE, over |-> {}], 0, << >>))

(***************************************************************************)
(* generatePuzzleSync and the worker.                                      *)
(***************************************************************************)
\* null
Null == [null |-> TRUE]

\* The two engine files: flat bitmask boards, arrays of arrays.
Engines == { "bitmask", "array" }

\* Cap on the attempts of one generatePuzzleSync call (1000 in the source).
maxAttempts == 2

\* The configs the caller sends: the five tiers of difficultyConfig with their
\* maxLevel.  minRemove and maxRemove are rescaled to the 16 cells of the
\* N = 4 grid, where the removal loop gets to 10 blank cells when nothing
\* stops it: the loop is stopped at maxRemove or one pair past it in the three
\* lower tiers, runs out of pairs at minRemove in master, and stays below
\* minRemove in extreme.
difficultyConfig ==
  [medium  |-> [minRemove |-> 4,  maxRemove |-> 5,  maxLevel |-> 2],
   hard    |-> [minRemove |-> 6,  maxRemove |-> 8,  maxLevel |-> 3],
   expert  |-> [minRemove |-> 8,  maxRemove |-> 9,  maxLevel |-> 4],
   master  |-> [minRemove |-> 10, maxRemove |-> 12, maxLevel |-> 5],
   extreme |-> [minRemove |-> 11, maxRemove |-> 14, maxLevel |-> 7]]

\* generateSolution() of each engine under the bounded random source.
SolutionPool ==
  [eng \in Engines |-> [k \in RandomValues |-> generateSolution(eng, { numOrder(k) })]]

\* isLevelMatch without the exact-tier test for tiers 3 and 4.
isLevelMatchLoose(analysis, cfg) ==
  IF ~analysis.solved THEN FALSE
  ELSE IF analysis.maxLevel > cfg.maxLevel THEN FALSE
  ELSE IF cfg.maxLevel <= 4 THEN TRUE
  ELSE IF cfg.maxLevel = 5 THEN analysis.maxLevel >= 5
  ELSE analysis.maxLevel >= 6

\* isLevelMatch with the exact-tier test at the easy end as well.
isLevelMatchExact(analysis, cfg) ==
  IF ~analysis.solved THEN FALSE
  ELSE IF analysis.maxLevel > cfg.maxLevel THEN FALSE
  ELSE IF cfg.maxLevel <= 4 THEN analysis.maxLevel = cfg.maxLevel
  ELSE IF cfg.maxLevel = 5 THEN analysis.maxLevel >= 5
  ELSE analysis.maxLevel >= 6

\* isLevelMatch with the threshold 5 for every tier above 4.
isLevelMatchFive(analysis, cfg) ==
  IF ~analysis.solved THEN FALSE
  ELSE IF analysis.maxLevel > cfg.maxLevel THEN FALSE
  ELSE IF cfg.maxLevel <= 2 THEN TRUE
  ELSE IF cfg.maxLevel <= 4 THEN analysis.maxLevel = cfg.maxLevel
  ELSE analysis.maxLevel >= 5

\* isLevelMatch without the test analysis.maxLevel > config.maxLevel.
isLevelMatchNoCap(analysis, cfg) ==
  IF ~analysis.solved THEN FALSE
  ELSE IF cfg.maxLevel <= 2 THEN TRUE
  ELSE IF cfg.maxLevel <= 4 THEN analysis.maxLevel = cfg.maxLevel
  ELSE IF cfg.maxLevel = 5 THEN analysis.maxLevel >= 5
  ELSE analysis.maxLevel >= 6

isLevelMatch(analysis, cfg) ==
  IF ~analysis.solved THEN FALSE
  ELSE IF analysis.maxLevel > cfg.maxLevel THEN FALSE
  ELSE IF cfg.maxLevel <= 2 THEN TRUE
  ELSE IF cfg.maxLevel <= 4 THEN analysis.maxLevel = cfg.maxLevel
  ELSE IF cfg.maxLevel = 5 THEN analysis.maxLevel >= 5
  ELSE analysis.maxLevel >= 6

\* Analyses that solvePuzzleWithLogic returns on 9 x 9 puzzles and cannot
\* return on the N = 4 grid, where every uniquely solvable symmetric puzzle
\* falls to naked singles: solved at each level 1..7, and stuck.
solverGrades ==
  { [solved |-> TRUE, maxLevel |-> l, techniquesUsed |-> [k \in 1 .. l |-> techName(k)]] :
      l \in 1 .. 7 }
    \cup { [solved |-> FALSE, maxLevel |-> 2, techniquesUsed |-> [k \in 1 .. 2 |-> techName(k)]] }

\* The outcomes of solvePuzzleWithLogic(puzzle) in generatePuzzleAttempt: the
\* analysis of the grid at hand, and the grades only larger grids produce.
analysesOf(eng, grid) ==
  { IF eng = "bitmask" THEN solvePuzzleWithLogic(grid) ELSE solvePuzzleWithLogic2D(grid) }
    \cup solverGrades

\* attemptResult with removed <= config.minRemove as the null test.
attemptResultStrict(eng, cfg, sol, grid, rem) ==
  IF rem <= cfg.minRemove THEN { Null }
  ELSE { [puzzle |-> grid, solution |-> sol, removed |-> rem, analysis |-> a] :
           a \in analysesOf(eng, grid) }

\* attemptResult with solvePuzzleWithLogic working on the caller's grid
\* instead of a copy: the puzzle returned is the grid as the solver leaves it.
attemptResultShared(eng, cfg, sol, grid, rem) ==
  IF rem < cfg.minRemove THEN { Null }
  ELSE { [puzzle |-> IF eng = "bitmask"
                     THEN solverLoop([board |-> grid, cand |-> initCandidates(grid),
                                      prog |-> FALSE, over |-> {}], 0, << >>).s.board
                     ELSE solverLoop2D([board |-> grid, cand |-> getCandidates(grid),
                                        prog |-> FALSE, over |-> {}], 0, << >>).s.board,
          solution |-> sol, removed |-> rem, analysis |-> a] :
           a \in analysesOf(eng, grid) }

\* The end of generatePuzzleAttempt: null, or the record for each analysis.
attemptResult(eng, cfg, sol, grid, rem) ==
  IF rem < cfg.minRemove THEN { Null }
  ELSE { [puzzle |-> grid, solution |-> sol, removed |-> rem, analysis |-> a] :
           a \in analysesOf(eng, grid) }

\* Returned with the solution of the attempt made last in place of the
\* solution kept in the record.
ReturnedLatest(res) ==
  [puzzle |-> res.puzzle, solution |-> solution, analysis |-> res.analysis]

\* { puzzle: result.puzzle, solution: result.solution, analysis: result.analysis }
Returned(res) ==
  [puzzle |-> res.puzzle, solution |-> res.solution, analysis |-> res.analysis]

\* loopBody without the return on a match: the match is kept as the best so far.
loopBodyNoReturn(cfg, sync, res) ==
  IF res = Null \/ ~res.analysis.solved THEN sync
  ELSE LET maxLvl == res.analysis.maxLevel IN
       IF maxLvl > sync.bestScore /\ maxLvl <= cfg.maxLevel
       THEN [sync EXCEPT !.bestScore = maxLvl, !.bestResult = res]
       ELSE sync

\* Body of the for loop of generatePuzzleSync once generatePuzzleAttempt has
\* returned res (bitmask engine).  sync = [bestResult, bestScore, ret]; ret is
\* set by the return inside the loop.
loopBody(cfg, sync, res) ==
  IF res = Null \/ ~res.analysis.solved THEN sync
  ELSE LET maxLvl == res.analysis.maxLevel IN
       IF maxLvl <= cfg.maxLevel
       THEN LET match == IF cfg.maxLevel <= 2 THEN TRUE
                         ELSE IF cfg.maxLevel <= 4 THEN maxLvl = cfg.maxLevel
                         ELSE IF cfg.maxLevel = 5 THEN maxLvl >= 5
                         ELSE maxLvl >= 6
            IN IF match THEN [sync EXCEPT !.ret = Returned(res)]
               ELSE IF maxLvl > sync.bestScore /\ maxLvl <= cfg.maxLevel
                    THEN [sync EXCEPT !.bestScore = maxLvl, !.bestResult = res]
                    ELSE sync
       ELSE sync

\* loopBody2D with score >= bestScore: the latest among equals is kept.
loopBody2DLatest(cfg, sync, res) ==
  IF res = Null THEN sync
  ELSE IF ~res.analysis.solved THEN sync
  ELSE IF isLevelMatch(res.analysis, cfg) THEN [sync EXCEPT !.ret = Returned(res)]
  ELSE LET score == IF res.analysis.maxLevel <= cfg.maxLevel THEN res.analysis.maxLevel
                    ELSE -1
       IN IF score >= sync.bestScore
          THEN [sync EXCEPT !.bestScore = score, !.bestResult = res]
          ELSE sync

\* loopBody2D with the comparison of the score inverted.
loopBody2DInverted(cfg, sync, res) ==
  IF res = Null THEN sync
  ELSE IF ~res.analysis.solved THEN sync
  ELSE IF isLevelMatch(res.analysis, cfg) THEN [sync EXCEPT !.ret = Returned(res)]
  ELSE LET score == IF res.analysis.maxLevel > cfg.maxLevel THEN res.analysis.maxLevel
                    ELSE -1
       IN IF score > sync.bestScore
          THEN [sync EXCEPT !.bestScore = score, !.bestResult = res]
          ELSE sync

\* The same loop body in the array engine.
loopBody2D(cfg, sync, res) ==
  IF res = Null THEN sync
  ELSE IF ~res.analysis.solved THEN sync
  ELSE IF isLevelMatch(res.analysis, cfg) THEN [sync EXCEPT !.ret = Returned(res)]
  ELSE LET score == IF res.analysis.maxLevel <= cfg.maxLevel THEN res.analysis.maxLevel
                    ELSE -1
       IN IF score > sync.bestScore
          THEN [sync EXCEPT !.bestScore = score, !.bestResult = res]
          ELSE sync

\* One iteration of the last-resort loop over the shuffled positions;
\* st = [puzzle, removed].  After the break nothing changes any more.
fallbackStep(eng, cfg, st, idx) ==
  IF st.removed >= cfg.minRemove THEN st
  ELSE LET blanked == [st.puzzle EXCEPT ![idx] = 0]
           count == IF eng = "bitmask" THEN countSolutions(blanked, 2)
                    ELSE countSolutions2D(blanked, 2)
       IN IF count = 1 THEN [puzzle |-> blanked, removed |-> st.removed + 1] ELSE st

\* The last resort of generatePuzzleSync, with the analysis each engine returns.
fallbackResult(eng, cfg, sol, positions) ==
  LET st == FoldSeq(LAMBDA a, idx : fallbackStep(eng, cfg, a, idx),
                    [puzzle |-> sol, removed |-> 0], positions)
  IN [puzzle |-> st.puzzle,
      solution |-> sol,
      analysis |-> IF eng = "bitmask"
                   THEN [solved |-> TRUE, maxLevel |-> 1, techniquesUsed |-> << "Fallback" >>]
                   ELSE [solved |-> FALSE, maxLevel |-> 0, techniquesUsed |-> << >>]]

(***************************************************************************)
(* The worker: one generatePuzzleSync call per 'generate' message.         *)
(***************************************************************************)
\* The page's pool before initPuzzleWorker: "const puzzlePool = {}" and
\* "let puzzleWorker = null", no generatePuzzle call under way.
poolIdle ==
  /\ puzzlePool = << >>
  /\ puzzleWorker = Null
  /\ game = Null

\* No call of solvePuzzleWithLogic is being followed.
solverIdle ==
  /\ given = EmptyBoard
  /\ work = Null
  /\ tech = 0
  /\ stats = Null
  /\ trace = << >>

Init ==
  /\ engine \in Engines
  /\ pc = "idle"
  /\ difficulty = "none"
  /\ config = Null
  /\ attempt = 0
  /\ bestResult = Null
  /\ bestScore = -1
  /\ result = Null
  /\ ret = Null
  /\ solution = EmptyBoard
  /\ puzzle = EmptyBoard
  /\ pairs = << >>
  /\ pairIndex = 0
  /\ removed = 0
  /\ message = Null
  /\ log = << >>
  /\ exit = "none"
  /\ solverIdle
  /\ poolIdle

\* self.onmessage with type 'generate': generatePuzzleSync(config) starts.
onmessage ==
  /\ pc \in { "idle", "posted" }
  /\ \E d \in DOMAIN difficultyConfig :
       /\ difficulty' = d
       /\ config' = difficultyConfig[d]
  /\ attempt' = 0
  /\ bestResult' = Null
  /\ bestScore' = -1
  /\ result' = Null
  /\ ret' = Null
  /\ solution' = EmptyBoard
  /\ puzzle' = EmptyBoard
  /\ pairs' = << >>
  /\ pairIndex' = 0
  /\ removed' = 0
  /\ message' = Null
  /\ log' = << >>
  /\ exit' = "none"
  /\ pc' = "loop"
  /\ UNCHANGED engine
  /\ UNCHANGED solverVars
  /\ UNCHANGED poolVars

\* if (Date.now() - startTime > timeBudgetMs) break;
TimeBudget ==
  /\ pc = "loop"
  /\ attempt < maxAttempts
  /\ pc' = "after"
  /\ UNCHANGED << engine, difficulty, config, attempt, bestResult, bestScore, result, ret,
                  solution, puzzle, pairs, pairIndex, removed, message, log, exit >>
  /\ UNCHANGED solverVars
  /\ UNCHANGED poolVars

\* attempt < maxAttempts fails: the for loop ends.
LoopEnd ==
  /\ pc = "loop"
  /\ attempt >= maxAttempts
  /\ pc' = "after"
  /\ UNCHANGED << engine, difficulty, config, attempt, bestResult, bestScore, result, ret,
                  solution, puzzle, pairs, pairIndex, removed, message, log, exit >>
  /\ UNCHANGED solverVars
  /\ UNCHANGED poolVars

\* generatePuzzleAttempt up to its removal loop: solution, puzzle, pairs.
\* Math.random() returns k / RandomLevels throughout the attempt.
StartAttempt ==
  /\ pc = "loop"
  /\ attempt < maxAttempts
  /\ \E k \in RandomValues :
       /\ solution' \in SolutionPool[engine][k]
       /\ pairs' = buildPairs(coordOrder(k), {}, << >>)
  /\ puzzle' = solution'
  /\ pairIndex' = 1
  /\ removed' = 0
  /\ pc' = "removal"
  /\ UNCHANGED << engine, difficulty, config, attempt, bestResult, bestScore, result, ret,
                  message, log, exit >>
  /\ UNCHANGED solverVars
  /\ UNCHANGED poolVars

\* One iteration of for (const pair of pairs), the break included.
RemovalIteration ==
  /\ pc = "removal"
  /\ LET st == [puzzle |-> puzzle, removed |-> removed, stop |-> FALSE]
         after == IF engine = "bitmask" THEN removalStep(config, st, pairs[pairIndex])
                  ELSE removalStep2D(config, st, pairs[pairIndex])
     IN /\ puzzle' = after.puzzle
        /\ removed' = after.removed
        /\ pairIndex' = IF after.stop THEN pairIndex ELSE pairIndex + 1
        /\ pc' = IF after.stop \/ pairIndex = Len(pairs) THEN "attemptEnd" ELSE "removal"
  /\ UNCHANGED << engine, difficulty, config, attempt, bestResult, bestScore, result, ret,
                  solution, pairs, message, log, exit >>
  /\ UNCHANGED solverVars
  /\ UNCHANGED poolVars

\* The end of generatePuzzleAttempt: null or { puzzle, solution, removed, analysis }.
ReturnAttempt ==
  /\ pc = "attemptEnd"
  /\ result' \in attemptResult(engine, config, solution, puzzle, removed)
  /\ pc' = "judge"
  /\ UNCHANGED << engine, difficulty, config, attempt, bestResult, bestScore, ret,
                  solution, puzzle, pairs, pairIndex, removed, message, log, exit >>
  /\ UNCHANGED solverVars
  /\ UNCHANGED poolVars

\* The rest of the loop body of generatePuzzleSync: continue, return the
\* match, or keep the best; then attempt++.
LoopBody ==
  /\ pc = "judge"
  /\ LET sync == [bestResult |-> bestResult, bestScore |-> bestScore, ret |-> Null]
         after == IF engine = "bitmask" THEN loopBody(config, sync, result)
                  ELSE loopBody2D(config, sync, result)
     IN /\ bestResult' = after.bestResult
        /\ bestScore' = after.bestScore
        /\ ret' = after.ret
        /\ exit' = IF after.ret # Null THEN "match" ELSE exit
        /\ attempt' = IF after.ret # Null THEN attempt ELSE attempt + 1
        /\ pc' = IF after.ret # Null THEN "done" ELSE "loop"
  /\ log' = Append(log, result)
  /\ UNCHANGED << engine, difficulty, config, result, solution, puzzle, pairs, pairIndex,
                  removed, message >>
  /\ UNCHANGED solverVars
  /\ UNCHANGED poolVars

\* if (bestResult) return { puzzle, solution, analysis } of bestResult.
ReturnBest ==
  /\ pc = "after"
  /\ bestResult # Null
  /\ ret' = Returned(bestResult)
  /\ exit' = "best"
  /\ pc' = "done"
  /\ UNCHANGED << engine, difficulty, config, attempt, bestResult, bestScore, result,
                  solution, puzzle, pairs, pairIndex, removed, message, log >>
  /\ UNCHANGED solverVars
  /\ UNCHANGED poolVars

\* Fallback left out: after the loop bestResult is returned as it is.
FallbackMissing ==
  /\ pc = "after"
  /\ bestResult = Null
  /\ ret' = bestResult
  /\ exit' = "fallback"
  /\ pc' = "done"
  /\ UNCHANGED << engine, difficulty, config, attempt, bestResult, bestScore, result,
                  solution, puzzle, pairs, pairIndex, removed, message, log >>
  /\ UNCHANGED solverVars
  /\ UNCHANGED poolVars

\* The last resort: a fresh solution, single cells removed in shuffled order.
Fallback ==
  /\ pc = "after"
  /\ bestResult = Null
  /\ \E k \in RandomValues :
       \E sol \in SolutionPool[engine][k] :
         ret' = fallbackResult(engine, config, sol, coordOrder(k))
  /\ exit' = "fallback"
  /\ pc' = "done"
  /\ UNCHANGED << engine, difficulty, config, attempt, bestResult, bestScore, result,
                  solution, puzzle, pairs, pairIndex, removed, message, log >>
  /\ UNCHANGED solverVars
  /\ UNCHANGED poolVars

\* self.postMessage of the worker; reading result.puzzle of null would throw.
PostMessage ==
  /\ pc = "done"
  /\ ret # Null
  /\ message' = [type |-> "result",
                 difficulty |-> difficulty,
                 puzzle |-> ret.puzzle,
                 solution |-> ret.solution,
                 analysis |-> [solved |-> ret.analysis.solved,
                               maxLevel |-> ret.analysis.maxLevel,
                               techniquesUsed |-> ret.analysis.techniquesUsed]]
  /\ pc' = "posted"
  /\ UNCHANGED << engine, difficulty, config, attempt, bestResult, bestScore, result, ret,
                  solution, puzzle, pairs, pairIndex, removed, log, exit >>
  /\ UNCHANGED solverVars
  /\ UNCHANGED poolVars

Next ==
  \/ onmessage
  \/ TimeBudget
  \/ LoopEnd
  \/ StartAttempt
  \/ RemovalIteration
  \/ ReturnAttempt
  \/ LoopBody
  \/ ReturnBest
  \/ Fallback
  \/ PostMessage

Spec == Init /\ [][Next]_vars

(***************************************************************************)
(* generateSolution on its own, every order of shuffleArray allowed.       *)
(***************************************************************************)
InitFill ==
  /\ engine \in Engines
  /\ pc = "generate"
  /\ difficulty = "none"
  /\ config = Null
  /\ attempt = 0
  /\ bestResult = Null
  /\ bestScore = -1
  /\ result = Null
  /\ ret = Null
  /\ solution = EmptyBoard
  /\ puzzle = EmptyBoard
  /\ pairs = << >>
  /\ pairIndex = 0
  /\ removed = 0
  /\ message = Null
  /\ log = << >>
  /\ exit = "none"
  /\ solverIdle
  /\ poolIdle

\* generateSolution(): fillBoard on a fresh empty board.
GenerateSolution ==
  /\ pc = "generate"
  /\ solution' \in generateSolution(engine, FreeNumOrders)
  /\ pc' = "generated"
  /\ UNCHANGED << engine, difficulty, config, attempt, bestResult, bestScore, result, ret,
                  puzzle, pairs, pairIndex, removed, message, log, exit >>
  /\ UNCHANGED solverVars
  /\ UNCHANGED poolVars

NextFill == GenerateSolution

SpecFill == InitFill /\ [][NextFill]_vars

(***************************************************************************)
(* isLevelMatch on its own: every analysis and every requested tier up to  *)
(* MaxTier.                                                                *)
(***************************************************************************)
MaxTier == 8

InitMatch ==
  /\ engine \in Engines
  /\ pc = "match"
  /\ difficulty = "none"
  /\ config \in { [minRemove |-> 0, maxRemove |-> 0, maxLevel |-> l] : l \in 0 .. MaxTier }
  /\ attempt = 0
  /\ bestResult = Null
  /\ bestScore = -1
  /\ result \in { [analysis |-> [solved |-> b, maxLevel |-> l, techniquesUsed |-> << >>]] :
                     b \in BOOLEAN, l \in 0 .. MaxTier }
  /\ ret = Null
  /\ solution = EmptyBoard
  /\ puzzle = EmptyBoard
  /\ pairs = << >>
  /\ pairIndex = 0
  /\ removed = 0
  /\ message = Null
  /\ log = << >>
  /\ exit = "none"
  /\ solverIdle
  /\ poolIdle

\* isLevelMatch(analysis, config)
IsLevelMatch ==
  /\ pc = "match"
  /\ ret' = isLevelMatch(result.analysis, config)
  /\ pc' = "matched"
  /\ UNCHANGED << engine, difficulty, config, attempt, bestResult, bestScore, result,
                  solution, puzzle, pairs, pairIndex, removed, message, log, exit >>
  /\ UNCHANGED solverVars
  /\ UNCHANGED poolVars

NextMatch == IsLevelMatch

SpecMatch == InitMatch /\ [][NextMatch]_vars

(***************************************************************************)
(* solvePuzzleWithLogic on its own, one technique call at a time.  Its     *)
(* arguments: every grid, consistent or not, whose givens lie on           *)
(* GivenCells, the generated solutions with cells of BlankCells blanked,   *)
(* and every solution grid with one cell blanked.                          *)
(***************************************************************************)
GivenCells == { N + 2, N + 3, 2 * N + 1, 3 * N + 1 }

BlankCells == { 0, 1, N + 1, 2 * N + 2, NN - 2, NN - 1 }

\* Every grid generateSolution can return, with one cell blanked.
SingleBlanks(eng) ==
  { [sol EXCEPT ![i] = 0] : sol \in generateSolution(eng, FreeNumOrders), i \in Cells }

SolverInputs(eng) ==
  { [i \in Cells |-> IF i \in GivenCells THEN g[i] ELSE 0] : g \in [GivenCells -> 0 .. N] }
    \cup { [i \in Cells |-> IF i \in blanks THEN 0 ELSE sol[i]] :
             sol \in UNION { SolutionPool[eng][k] : k \in RandomValues },
             blanks \in SUBSET BlankCells }
    \cup SingleBlanks(eng)

InitSolver ==
  /\ engine \in Engines
  /\ pc = "solve"
  /\ difficulty = "none"
  /\ config = Null
  /\ attempt = 0
  /\ bestResult = Null
  /\ bestScore = -1
  /\ result = Null
  /\ ret = Null
  /\ solution = EmptyBoard
  /\ puzzle = EmptyBoard
  /\ pairs = << >>
  /\ pairIndex = 0
  /\ removed = 0
  /\ message = Null
  /\ log = << >>
  /\ exit = "none"
  /\ given \in SolverInputs(engine)
  /\ work = Null
  /\ tech = 0
  /\ stats = Null
  /\ trace = << >>
  /\ poolIdle

\* solvePuzzleWithLogic up to its while loop: the board is copied, the
\* candidates are initialised, the statistics are empty.
StartSolver ==
  /\ pc = "solve"
  /\ work' = [board |-> given,
              cand |-> IF engine = "bitmask" THEN initCandidates(given)
                       ELSE getCandidates(given),
              prog |-> FALSE,
              over |-> {}]
  /\ stats' = [maxLevel |-> 0, used |-> << >>]
  /\ tech' = 1
  /\ pc' = "running"
  /\ UNCHANGED << engine, difficulty, config, attempt, bestResult, bestScore, result, ret,
                  solution, puzzle, pairs, pairIndex, removed, message, log, exit,
                  given, trace >>
  /\ UNCHANGED poolVars

\* CallTechnique with the for-of loop going on after a technique that
\* reported progress.
CallTechniqueOnward ==
  /\ pc = "running"
  /\ \E t \in { IF engine = "bitmask" THEN applyTechnique(tech, work)
                 ELSE applyTechnique2D(tech, work) } :
       /\ work' = t
       /\ trace' = Append(trace, [tech |-> tech, progress |-> t.prog])
       /\ stats' = IF t.prog
                   THEN [maxLevel |-> IF techLevel[tech] > stats.maxLevel
                                      THEN techLevel[tech] ELSE stats.maxLevel,
                         used |-> AddUsed(stats.used, techLevel[tech])]
                   ELSE stats
       /\ tech' = IF tech < Len(techLevel) THEN tech + 1 ELSE IF t.prog THEN 1 ELSE tech
       /\ pc' = IF t.prog \/ tech < Len(techLevel) THEN "running" ELSE "stuck"
  /\ UNCHANGED << engine, difficulty, config, attempt, bestResult, bestScore, result, ret,
                  solution, puzzle, pairs, pairIndex, removed, message, log, exit, given >>
  /\ UNCHANGED poolVars

\* One technique call of the while loop.  Progress: the level is recorded
\* and the loop starts over at the first technique (continue / break).  No
\* progress: the next technique, or stuck after the last one.
CallTechnique ==
  /\ pc = "running"
  /\ \E t \in { IF engine = "bitmask" THEN applyTechnique(tech, work)
                 ELSE applyTechnique2D(tech, work) } :
       /\ work' = t
       /\ trace' = Append(trace, [tech |-> tech, progress |-> t.prog])
       /\ stats' = IF t.prog
                   THEN [maxLevel |-> IF techLevel[tech] > stats.maxLevel
                                      THEN techLevel[tech] ELSE stats.maxLevel,
                         used |-> AddUsed(stats.used, techLevel[tech])]
                   ELSE stats
       /\ tech' = IF t.prog THEN 1 ELSE IF tech < Len(techLevel) THEN tech + 1 ELSE tech
       /\ pc' = IF t.prog \/ tech < Len(techLevel) THEN "running" ELSE "stuck"
  /\ UNCHANGED << engine, difficulty, config, attempt, bestResult, bestScore, result, ret,
                  solution, puzzle, pairs, pairIndex, removed, message, log, exit, given >>
  /\ UNCHANGED poolVars

\* return { solved, maxLevel, techniquesUsed }
ReturnSolver ==
  /\ pc = "stuck"
  /\ ret' = solverStats([s |-> work, maxLevel |-> stats.maxLevel, used |-> stats.used])
  /\ pc' = "returned"
  /\ UNCHANGED << engine, difficulty, config, attempt, bestResult, bestScore, result,
                  solution, puzzle, pairs, pairIndex, removed, message, log, exit,
                  solverVars >>
  /\ UNCHANGED poolVars

NextSolver ==
  \/ StartSolver
  \/ CallTechnique
  \/ ReturnSolver

SpecSolver == InitSolver /\ [][NextSolver]_vars

(***************************************************************************)
(* The while loop of solvePuzzleWithLogic entered with any grid and        *)
(* candidate state: the states solvePuzzleWithLogic enters it with, and    *)
(* candidate states of an empty grid as the loop meets them on boards      *)
(* where the techniques of the higher tiers apply.                         *)
(***************************************************************************)
solverState(board, candidates) ==
  [board |-> board, cand |-> candidates, prog |-> FALSE, over |-> {}]

\* Digit 1 a candidate of two or more cells of each row but the last and of
\* every cell of the last row; every other digit a candidate everywhere.
FishStates ==
  { solverState(EmptyBoard,
                [i \in Cells |-> IF i \in where \/ RowOf(i) = N - 1 THEN Digits
                                 ELSE Digits \ { 1 }]) :
      where \in { D \in SUBSET (0 .. (NN - N - 1)) :
                    \A r \in 0 .. (N - 2) : Cardinality({ i \in D : RowOf(i) = r }) >= 2 } }

\* Two candidates in a corner cell and in the cells BoxSize to its right
\* and BoxSize below it; every digit a candidate elsewhere.
WingStates ==
  { solverState(EmptyBoard,
                [i \in Cells |-> CASE i = 0 -> pivot
                                   [] i = BoxSize -> wing1
                                   [] i = BoxSize * N -> wing2
                                   [] OTHER -> Digits]) :
      pivot \in { S \in SUBSET Digits : Cardinality(S) = 2 },
      wing1 \in { S \in SUBSET Digits : Cardinality(S) = 2 },
      wing2 \in { S \in SUBSET Digits : Cardinality(S) = 2 } }

\* Any candidates in the first two cells of the first row; every digit a
\* candidate elsewhere.
SubsetStates ==
  { solverState(EmptyBoard,
                [i \in Cells |-> CASE i = 0 -> first [] i = 1 -> second [] OTHER -> Digits]) :
      first \in SUBSET Digits \ { {} }, second \in SUBSET Digits \ { {} } }

LoopStates(eng) ==
  { solverState(g, IF eng = "bitmask" THEN initCandidates(g) ELSE getCandidates(g)) :
      g \in SolverInputs(eng) }
    \cup FishStates \cup WingStates \cup SubsetStates

InitLoop ==
  /\ engine \in Engines
  /\ pc = "running"
  /\ difficulty = "none"
  /\ config = Null
  /\ attempt = 0
  /\ bestResult = Null
  /\ bestScore = -1
  /\ result = Null
  /\ ret = Null
  /\ solution = EmptyBoard
  /\ puzzle = EmptyBoard
  /\ pairs = << >>
  /\ pairIndex = 0
  /\ removed = 0
  /\ message = Null
  /\ log = << >>
  /\ exit = "none"
  /\ work \in LoopStates(engine)
  /\ given = work.board
  /\ tech = 1
  /\ stats = [maxLevel |-> 0, used |-> << >>]
  /\ trace = << >>
  /\ poolIdle

NextLoop ==
  \/ CallTechnique
  \/ ReturnSolver

SpecLoop == InitLoop /\ [][NextLoop]_vars

(***************************************************************************)
(* One call of one technique function, any of the eight, on any of the     *)
(* grid and candidate states above.                                        *)
(***************************************************************************)
InitTechnique ==
  /\ engine \in Engines
  /\ pc = "apply"
  /\ difficulty = "none"
  /\ config = Null
  /\ attempt = 0
  /\ bestResult = Null
  /\ bestScore = -1
  /\ result = Null
  /\ ret = Null
  /\ solution = EmptyBoard
  /\ puzzle = EmptyBoard
  /\ pairs = << >>
  /\ pairIndex = 0
  /\ removed = 0
  /\ message = Null
  /\ log = << >>
  /\ exit = "none"
  /\ work \in LoopStates(engine)
  /\ given = work.board
  /\ tech = 0
  /\ stats = Null
  /\ trace = << >>
  /\ poolIdle

ApplyTechnique ==
  /\ pc = "apply"
  /\ \E k \in 1 .. Len(techLevel) :
       \E t \in { IF engine = "bitmask" THEN applyTechnique(k, work)
                  ELSE applyTechnique2D(k, work) } :
         /\ work' = t
         /\ tech' = k
         /\ trace' = << [tech |-> k, progress |-> t.prog] >>
  /\ pc' = "applied"
  /\ UNCHANGED << engine, difficulty, config, attempt, bestResult, bestScore, result, ret,
                  solution, puzzle, pairs, pairIndex, removed, message, log, exit,
                  given, stats >>
  /\ UNCHANGED poolVars

NextTechnique == ApplyTechnique

SpecTechnique == InitTechnique /\ [][NextTechnique]_vars

(***************************************************************************)
(* countSolutions on its own: the grids above in which no two peers hold   *)
(* the same digit, and every limit up to MaxLimit.  config holds the       *)
(* limit argument.                                                         *)
(***************************************************************************)
MaxLimit == 3

InitCount ==
  /\ engine \in Engines
  /\ pc = "count"
  /\ difficulty = "none"
  /\ config \in { [limit |-> l] : l \in 1 .. MaxLimit }
  /\ attempt = 0
  /\ bestResult = Null
  /\ bestScore = -1
  /\ result = Null
  /\ ret = Null
  /\ solution = EmptyBoard
  /\ puzzle = EmptyBoard
  /\ pairs = << >>
  /\ pairIndex = 0
  /\ removed = 0
  /\ message = Null
  /\ log = << >>
  /\ exit = "none"
  /\ given \in { g \in SolverInputs(engine) :
                   \A i \in Cells : g[i] # 0 => \A p \in PEERS[i] : g[p] # g[i] }
  /\ work = Null
  /\ tech = 0
  /\ stats = Null
  /\ trace = << >>
  /\ poolIdle

\* countSolutions(board, limit): the board is copied, solve() runs on the
\* copy, the counter is returned.
CountSolutions ==
  /\ pc = "count"
  /\ ret' = IF engine = "bitmask" THEN countSolutions(given, config.limit)
            ELSE countSolutions2D(given, config.limit)
  /\ pc' = "counted"
  /\ UNCHANGED << engine, difficulty, config, attempt, bestResult, bestScore, result,
                  solution, puzzle, pairs, pairIndex, removed, message, log, exit,
                  solverVars >>
  /\ UNCHANGED poolVars

NextCount == CountSolutions

SpecCount == InitCount /\ [][NextCount]_vars

(***************************************************************************)
(* isValidPlacement on its own: every grid with givens on GivenCells, every *)
(* cell, every digit.  config holds the arguments row, col and num.        *)
(***************************************************************************)
InitValid ==
  /\ engine \in Engines
  /\ pc = "validate"
  /\ difficulty = "none"
  /\ config \in { [row |-> r, col |-> c, num |-> n] :
                    r \in 0 .. (N - 1), c \in 0 .. (N - 1), n \in Digits }
  /\ attempt = 0
  /\ bestResult = Null
  /\ bestScore = -1
  /\ result = Null
  /\ ret = Null
  /\ solution = EmptyBoard
  /\ puzzle = EmptyBoard
  /\ pairs = << >>
  /\ pairIndex = 0
  /\ removed = 0
  /\ message = Null
  /\ log = << >>
  /\ exit = "none"
  /\ given \in { [i \in Cells |-> IF i \in GivenCells THEN g[i] ELSE 0] :
                   g \in [GivenCells -> 0 .. N] }
  /\ work = Null
  /\ tech = 0
  /\ stats = Null
  /\ trace = << >>
  /\ poolIdle

\* isValidPlacement(board, row, col, num), the same scan in both engines.
IsValidPlacement ==
  /\ pc = "validate"
  /\ ret' = isValidPlacement(given, config.row, config.col, config.num)
  /\ pc' = "validated"
  /\ UNCHANGED << engine, difficulty, config, attempt, bestResult, bestScore, result,
                  solution, puzzle, pairs, pairIndex, removed, message, log, exit,
                  solverVars >>
  /\ UNCHANGED poolVars

NextValid == IsValidPlacement

SpecValid == InitValid /\ [][NextValid]_vars

(***************************************************************************)
(* Properties.                                                             *)
(***************************************************************************)
\* Number of blank cells of a grid.
zeros(grid) == Cardinality({ i \in Cells : grid[i] = 0 })

\* countSolutions(grid, 2) = 1 in the engine loaded.
uniqueCompletion(grid) ==
  IF engine = "bitmask" THEN countSolutions(grid, 2) = 1 ELSE countSolutions2D(grid, 2) = 1

finished == pc \in { "done", "posted" }

\* The attempts of the run that satisfy isLevelMatch, by position in the log.
matchesIn ==
  { i \in 1 .. Len(log) : log[i] # Null /\ isLevelMatch(log[i].analysis, config) }

\* The solved attempts whose maxLevel does not exceed config.maxLevel.
withinTier ==
  { i \in 1 .. Len(log) :
      /\ log[i] # Null
      /\ log[i].analysis.solved
      /\ log[i].analysis.maxLevel <= config.maxLevel }

\* The earliest attempt of the highest maxLevel in withinTier.
bestIndex ==
  CHOOSE i \in withinTier :
    \A j \in withinTier :
      \/ log[j].analysis.maxLevel < log[i].analysis.maxLevel
      \/ log[j].analysis.maxLevel = log[i].analysis.maxLevel /\ i <= j

\* ret is attempt i of the run.
returnsAttempt(i) ==
  /\ ret # Null
  /\ ret.puzzle = log[i].puzzle
  /\ ret.solution = log[i].solution
  /\ ret.analysis = log[i].analysis

\* C1: every non-null result of generatePuzzleAttempt and every puzzle that
\* generatePuzzleSync returns (match, best effort or fallback) has exactly
\* one completion: countSolutions(puzzle, 2) = 1.
C1_UniqueCompletion ==
  /\ (pc = "judge" /\ result # Null) => uniqueCompletion(result.puzzle)
  /\ ret # Null => uniqueCompletion(ret.puzzle)

\* The fallback returned a puzzle with at least ten blanks after attempts were made.
C1_Witness ==
  /\ pc = "done"
  /\ exit = "fallback"
  /\ Len(log) = maxAttempts
  /\ zeros(ret.puzzle) >= 10

\* C2: generateSolution() returns a grid without zero in which every row,
\* every column and every box holds each digit exactly once, whatever orders
\* shuffleArray produces.
C2_FullValidGrid ==
  pc = "generated" =>
    /\ \A i \in Cells : solution[i] \in Digits
    /\ \A r \in 0 .. (N - 1) : { solution[r * N + c] : c \in 0 .. (N - 1) } = Digits
    /\ \A c \in 0 .. (N - 1) : { solution[r * N + c] : r \in 0 .. (N - 1) } = Digits
    /\ \A br \in 0 .. (BoxSize - 1) : \A bc \in 0 .. (BoxSize - 1) :
         { solution[(br * BoxSize + dr) * N + bc * BoxSize + dc] :
             dr \in 0 .. (BoxSize - 1), dc \in 0 .. (BoxSize - 1) } = Digits

\* A generated grid whose first row is in descending order.
C2_Witness ==
  /\ pc = "generated"
  /\ \A c \in 0 .. (N - 1) : solution[c] = N - c

\* The calls of generatePuzzleAttempt made so far in the run.
attemptCalls ==
  Len(log) + (IF pc \in { "removal", "attemptEnd", "judge" } THEN 1 ELSE 0)

\* The steps one attempt takes at most: its start, one step for each pair,
\* its return and the rest of the loop body.
attemptSteps == (NN + 1) \div 2 + 3

\* A bound on the steps left until the worker has posted the result.
stepsLeft ==
  CASE pc = "loop" -> 3 + (maxAttempts - attempt) * attemptSteps
    [] pc = "removal" ->
         5 + (maxAttempts - attempt - 1) * attemptSteps + (Len(pairs) - pairIndex + 1)
    [] pc = "attemptEnd" -> 5 + (maxAttempts - attempt - 1) * attemptSteps
    [] pc = "judge" -> 4 + (maxAttempts - attempt - 1) * attemptSteps
    [] pc = "after" -> 2
    [] pc = "done" -> 1
    [] OTHER -> 0

\* C3: generatePuzzleSync never fails: it makes at most maxAttempts calls of
\* generatePuzzleAttempt, every step of the call brings its end nearer (so
\* it terminates), and what it returns is a record with a puzzle, a solution
\* and an analysis, which the worker can post.
C3_NeverFails ==
  /\ [](/\ attemptCalls <= maxAttempts
        /\ stepsLeft \in Nat
        /\ pc = "removal" => pairIndex \in 1 .. Len(pairs)
        /\ finished => (ret # Null /\ DOMAIN ret = { "puzzle", "solution", "analysis" })
        /\ pc = "done" => ENABLED PostMessage)
  /\ [][pc \notin { "idle", "posted" } => stepsLeft' < stepsLeft]_vars

\* A result was posted after maxAttempts attempts that all returned an
\* unsolved analysis.
C3_Witness ==
  /\ pc = "posted"
  /\ message # Null
  /\ Len(log) = maxAttempts
  /\ \A i \in 1 .. Len(log) : log[i] # Null /\ ~log[i].analysis.solved

\* C4: once an attempt satisfies isLevelMatch it is the last attempt made and
\* it is what generatePuzzleSync returns, by the return inside the loop.
C4_FirstMatchReturned ==
  matchesIn # {} =>
    /\ matchesIn = { Len(log) }
    /\ finished
    /\ exit = "match"
    /\ returnsAttempt(Len(log))

\* The second attempt matched after a first attempt that was solved and did not.
C4_Witness ==
  /\ pc = "done"
  /\ exit = "match"
  /\ Len(log) = 2
  /\ log[1] # Null
  /\ log[1].analysis.solved
  /\ log[1].puzzle # log[2].puzzle

\* C5: with no matching attempt, the attempt returned is the earliest one of
\* the highest maxLevel among the solved attempts within config.maxLevel; an
\* attempt above config.maxLevel is never returned.
C5_BestEffort ==
  /\ (finished /\ matchesIn = {} /\ withinTier # {}) =>
       (exit = "best" /\ returnsAttempt(bestIndex))
  /\ exit \in { "match", "best" } => ret.analysis.maxLevel <= config.maxLevel

\* Two different puzzles of the same level, neither matching: the first is returned.
C5_Witness ==
  /\ pc = "done"
  /\ exit = "best"
  /\ withinTier = { 1, 2 }
  /\ log[1].analysis.maxLevel = log[2].analysis.maxLevel
  /\ log[1].puzzle # log[2].puzzle

\* C6: the analysis returned with the fallback puzzle has maxLevel 0 and
\* carries the label "Fallback".
C6_FallbackReported ==
  exit = "fallback" =>
    /\ ret.analysis.maxLevel = 0
    /\ \E k \in DOMAIN ret.analysis.techniquesUsed :
         ret.analysis.techniquesUsed[k] = "Fallback"

\* C7 as claimed: the fallback is taken only if no attempt of the run was solved.
C7_FallbackOnlyUnsolved ==
  exit = "fallback" =>
    \A i \in 1 .. Len(log) : log[i] = Null \/ ~log[i].analysis.solved

\* C7 amended: the fallback is taken only if no attempt of the run was solved
\* within config.maxLevel; when one was, one of the attempts is returned.
C7_FallbackOnlyOutOfTier ==
  /\ exit = "fallback" => withinTier = {}
  /\ (finished /\ withinTier # {}) =>
       /\ exit \in { "match", "best" }
       /\ \E i \in 1 .. Len(log) : log[i] # Null /\ returnsAttempt(i)

\* The fallback was taken although an attempt was solved, above config.maxLevel.
C7_Witness ==
  /\ pc = "done"
  /\ exit = "fallback"
  /\ \E i \in 1 .. Len(log) :
       /\ log[i] # Null
       /\ log[i].analysis.solved
       /\ log[i].analysis.maxLevel > config.maxLevel

\* C8: generatePuzzleAttempt returns null exactly when fewer than
\* config.minRemove cells were removed, and otherwise the record
\* { puzzle, solution, removed, analysis } of the attempt.
C8_NullIffBelowMin ==
  pc = "judge" =>
    /\ result = Null <=> zeros(puzzle) < config.minRemove
    /\ result # Null =>
         /\ DOMAIN result = { "puzzle", "solution", "removed", "analysis" }
         /\ result.puzzle = puzzle
         /\ result.solution = solution
         /\ result.removed = zeros(puzzle)

\* An attempt that removed exactly config.minRemove cells returned a record.
C8_Witness ==
  /\ pc = "judge"
  /\ result # Null
  /\ zeros(puzzle) = config.minRemove

\* C9: a non-null result of generatePuzzleAttempt has at most
\* config.maxRemove blank cells, removed being their number.
C9_RemovedWithinMax ==
  (pc = "judge" /\ result # Null) =>
    /\ result.removed = zeros(result.puzzle)
    /\ result.removed <= config.maxRemove

\* C10: the pairs partition the cells into a cell and its image under the
\* 180-degree rotation, and after every iteration of the removal loop a cell
\* is blank iff its image is.
C10_SymmetricBlanks ==
  pc \in { "removal", "attemptEnd", "judge" } =>
    /\ \A idx \in Cells : puzzle[idx] = 0 <=> puzzle[NN - 1 - idx] = 0
    /\ \A idx \in Cells :
         \E k \in 1 .. Len(pairs) :
           /\ Range(pairs[k]) = { idx, NN - 1 - idx }
           /\ \A m \in 1 .. Len(pairs) : idx \in Range(pairs[m]) => m = k

\* In the middle of the loop, with pairs blanked and a pair restored.
C10_Witness ==
  /\ pc = "removal"
  /\ pairIndex > 3
  /\ zeros(puzzle) >= 4
  /\ zeros(puzzle) < 2 * (pairIndex - 1)

\* C11: for a requested tier of 3 or 4, isLevelMatch is true exactly when the
\* analysis is solved and its maxLevel equals the requested tier.
C11_ExactTier ==
  (pc = "matched" /\ config.maxLevel \in { 3, 4 }) =>
    (ret <=> (result.analysis.solved /\ result.analysis.maxLevel = config.maxLevel))

\* Tier 4 requested: a solved analysis of maxLevel 2 was rejected.
C11_Witness ==
  /\ pc = "matched"
  /\ config.maxLevel = 4
  /\ result.analysis.solved
  /\ result.analysis.maxLevel = 2
  /\ ret = FALSE

\* C12: for a requested tier of at most 2, isLevelMatch accepts every solved
\* analysis whose maxLevel is at most the requested tier.
C12_EasyEnd ==
  (pc = "matched" /\ config.maxLevel <= 2) =>
    ((result.analysis.solved /\ result.analysis.maxLevel <= config.maxLevel) => ret)

\* Tier 2 requested: a solved analysis of maxLevel 0 was accepted.
C12_Witness ==
  /\ pc = "matched"
  /\ config.maxLevel = 2
  /\ result.analysis.solved
  /\ result.analysis.maxLevel = 0
  /\ ret = TRUE

\* C13 as claimed: a solved analysis is accepted for tier 5 if its maxLevel
\* is at least 5, and for a tier of 6 or more if its maxLevel is at least 6.
C13_LowerThreshold ==
  (pc = "matched" /\ result.analysis.solved) =>
    /\ (config.maxLevel = 5 /\ result.analysis.maxLevel >= 5) => ret
    /\ (config.maxLevel >= 6 /\ result.analysis.maxLevel >= 6) => ret

\* C13 amended: a solved analysis is accepted for tier 5 exactly when its
\* maxLevel is 5, and for a tier of 6 or more exactly when its maxLevel is at
\* least 6 and at most the requested tier.
C13_ThresholdWithinTier ==
  (pc = "matched" /\ result.analysis.solved) =>
    /\ config.maxLevel = 5 => (ret <=> result.analysis.maxLevel = 5)
    /\ config.maxLevel >= 6 =>
         (ret <=> (result.analysis.maxLevel >= 6
                     /\ result.analysis.maxLevel <= config.maxLevel))

\* Tier 7 requested: a solved analysis of maxLevel 6 was accepted.
C13_Witness ==
  /\ pc = "matched"
  /\ config.maxLevel = 7
  /\ result.analysis.solved
  /\ result.analysis.maxLevel = 6
  /\ ret = TRUE

\* C14: isLevelMatch is false whenever the analysis is not solved or its
\* maxLevel is greater than the requested tier.
C14_RejectOutright ==
  (pc = "matched" /\ (~result.analysis.solved \/ result.analysis.maxLevel > config.maxLevel))
    => ret = FALSE

\* Tier 5 requested: a solved analysis of maxLevel 6 was rejected.
C14_Witness ==
  /\ pc = "matched"
  /\ config.maxLevel = 5
  /\ result.analysis.solved
  /\ result.analysis.maxLevel = 6
  /\ ret = FALSE

\* The tiers of the technique calls made so far that reported progress.
progressTiers ==
  { techLevel[trace[j].tech] : j \in { k \in 1 .. Len(trace) : trace[k].progress } }

highestTier ==
  IF progressTiers = {} THEN 0
  ELSE CHOOSE m \in progressTiers : \A l \in progressTiers : l <= m

\* C15: what solvePuzzleWithLogic returns: solved is true exactly when no
\* cell of the working grid is empty when the loop ends; maxLevel is the
\* highest tier of a technique call that reported progress, 0 when none
\* did; techniquesUsed holds exactly the names of the tiers that reported
\* progress, each once.  The call made in one piece returns the same.
C15_ReturnedAnalysis ==
  pc = "returned" =>
    /\ ret.solved <=> (\A i \in Cells : work.board[i] # 0)
    /\ ret.maxLevel = highestTier
    /\ Range(ret.techniquesUsed) = { techName(l) : l \in progressTiers }
    /\ Len(ret.techniquesUsed) = Cardinality(progressTiers)
    /\ ret = IF engine = "bitmask" THEN solvePuzzleWithLogic(given)
             ELSE solvePuzzleWithLogic2D(given)

\* A call that was stuck with empty cells left after progress of tiers 2
\* and 3, the same tier of technique having reported progress twice.
C15_Witness ==
  /\ pc = "returned"
  /\ ~ret.solved
  /\ ret.maxLevel = 3
  /\ ret.techniquesUsed = << "Hidden Single", "Naked/Hidden Subsets" >>
  /\ \E j, k \in 1 .. Len(trace) :
       j # k /\ trace[j].progress /\ trace[k].progress /\ trace[j].tech = trace[k].tech

\* A call that filled the grid.
C15_WitnessSolved ==
  /\ pc = "returned"
  /\ ret.solved
  /\ ret.maxLevel >= 1
  /\ \E i \in Cells : given[i] = 0

\* The technique the priority order puts after the calls made so far: the
\* first one at the start and after progress, the next one otherwise.
techniqueDue(calls) ==
  IF calls = << >> \/ calls[Len(calls)].progress THEN 1
  ELSE calls[Len(calls)].tech + 1

\* C16: a technique is invoked only after every technique before it in the
\* priority order has been invoked on the current state and reported no
\* progress: the calls since the last progress are techniques 1, 2, ... in
\* order, a call without progress leaves grid and candidates as they
\* were, and the loop is stuck only after all techniques failed in a row.
\* After any progress the next technique invoked is Naked Single.
C16_PriorityOrder ==
  /\ [](/\ \A j \in 1 .. Len(trace) : trace[j].tech = techniqueDue(SubSeq(trace, 1, j - 1))
        /\ pc = "running" => tech = techniqueDue(trace)
        /\ pc \in { "stuck", "returned" } =>
             /\ Len(trace) >= Len(techLevel)
             /\ \A k \in 1 .. Len(techLevel) :
                  LET call == trace[Len(trace) - Len(techLevel) + k]
                  IN  call.tech = k /\ ~call.progress)
  /\ [][pc = "running" /\ ~work'.prog =>
          work'.board = work.board /\ work'.cand = work.cand]_vars

\* Progress of a technique of tier 3 after Naked Single and Hidden Single
\* failed, followed by a call of Naked Single.
C16_Witness ==
  \E j \in 3 .. Len(trace) - 1 :
    /\ trace[j].tech = 3 /\ trace[j].progress
    /\ trace[j - 1].tech = 2 /\ ~trace[j - 1].progress
    /\ trace[j - 2].tech = 1 /\ ~trace[j - 2].progress
    /\ trace[j + 1].tech = 1

\* The number of empty cells plus the total number of candidates.
measure(s) ==
  Cardinality({ i \in Cells : s.board[i] = 0 })
    + Cardinality({ iv \in Cells \X Digits : iv[2] \in s.cand[iv[1]] })

\* A bound on the steps solvePuzzleWithLogic has left: after progress the
\* loop starts over with a smaller measure, without progress it moves on
\* by one technique.
solverSteps ==
  CASE pc = "solve" -> 3 + (NN + NN * N + 1) * Len(techLevel)
    [] pc = "running" -> 2 + measure(work) * Len(techLevel) + (Len(techLevel) - tech)
    [] pc = "stuck" -> 1
    [] OTHER -> 0

\* C17: solvePuzzleWithLogic terminates on every input grid, contradictory
\* and multi-solution ones included: every step lowers the natural number
\* solverSteps.  Every technique call that reports progress strictly
\* decreases (number of empty cells + total number of candidates).
C17_Terminates ==
  /\ [](solverSteps \in Nat)
  /\ [][/\ solverSteps' < solverSteps
        /\ pc = "running" /\ work'.prog => measure(work') < measure(work)]_vars

\* The loop has returned for a grid with two equal givens in a row after
\* a call that reported progress.
C17_Witness ==
  /\ pc = "returned"
  /\ \E i, j \in Cells : i # j /\ RowOf(i) = RowOf(j) /\ given[i] # 0 /\ given[i] = given[j]
  /\ \E k \in 1 .. Len(trace) : trace[k].progress

\* C18: every technique only narrows candidate sets or fills empty cells:
\* across any call, on any grid and candidate state, a cell that is filled
\* keeps its value, a cell filled during the call is not written again in
\* that call (work.over collects the cells written while filled), and each
\* cell's candidate set after the call is a subset of the one before.
C18_OnlyNarrows ==
  /\ [](work.over = {})
  /\ [][\A i \in Cells :
          /\ work.board[i] # 0 => work'.board[i] = work.board[i]
          /\ work'.cand[i] \subseteq work.cand[i]]_vars

\* The Grid Validator of the engine in use.
allowed(board, idx, val) ==
  IF engine = "bitmask" THEN isValid(board, idx, val)
  ELSE isValidPlacement(board, RowOf(idx), ColOf(idx), val)

\* C19: between technique calls the candidate sets agree with the grid:
\* each filled cell has an empty candidate set, and each candidate v of an
\* empty cell is allowed by the Grid Validator (no peer holds v).
C19_CandidatesAgree ==
  pc \in { "running", "stuck", "returned" } =>
    \A i \in Cells :
      IF work.board[i] # 0 THEN work.cand[i] = {}
      ELSE \A v \in work.cand[i] :
             /\ allowed(work.board, i, v)
             /\ \A p \in PEERS[i] : work.board[p] # v

\* Between two calls, after one that filled a cell: a peer of a filled cell
\* is empty and has candidates left.
C19_Witness ==
  /\ pc = "running"
  /\ trace # << >>
  /\ trace[Len(trace)].progress
  /\ \E i \in Cells :
       /\ given[i] = 0
       /\ work.board[i] # 0
       /\ \E p \in PEERS[i] : work.board[p] = 0 /\ work.cand[p] # {}

\* No two peers hold the same digit.
peerValid(board) ==
  \A i \in Cells : board[i] # 0 => \A p \in PEERS[i] : board[p] # board[i]

\* C20: if the input grid has no two peers holding the same digit, then
\* after any sequence of technique calls no two peers of the working grid
\* hold the same digit.
C20_NoPeerDuplicates ==
  (work # Null /\ peerValid(given)) => peerValid(work.board)

\* A valid input grid to which three or more calls have added digits, the
\* last of them to a cell with a filled peer.
C20_Witness ==
  /\ work # Null
  /\ peerValid(given)
  /\ Cardinality({ k \in 1 .. Len(trace) : trace[k].progress }) >= 3
  /\ trace[Len(trace)].progress
  /\ \E i \in Cells : given[i] = 0 /\ work.board[i] # 0 /\ \E p \in PEERS[i] : work.board[p] # 0

\* The technique just called, called once more on the state it left.
calledAgain ==
  IF engine = "bitmask" THEN applyTechnique(tech, work) ELSE applyTechnique2D(tech, work)

\* C21: the progress flag of a technique is faithful: a call that returns
\* false changed neither the grid nor any candidate set, and the same
\* technique called again on that state returns false again and changes
\* nothing.
C21_FaithfulFlag ==
  /\ [][~work'.prog => work'.board = work.board /\ work'.cand = work.cand]_vars
  /\ [](pc = "applied" /\ ~work.prog =>
          /\ ~calledAgain.prog
          /\ calledAgain.board = work.board
          /\ calledAgain.cand = work.cand)

\* A call of Naked Subsets that returned false on a grid with empty cells
\* that have two or more candidates each.
C21_Witness ==
  /\ pc = "applied"
  /\ tech = 3
  /\ ~work.prog
  /\ \E i \in Cells : work.board[i] # 0
  /\ \E i \in Cells : work.board[i] = 0 /\ Cardinality(work.cand[i]) >= 2

\* A grid with one empty cell and no two peers holding the same digit: a
\* valid solution grid with one cell blanked.
singleBlank(board) ==
  Cardinality({ i \in Cells : board[i] = 0 }) = 1 /\ peerValid(board)

\* C22: for a valid solution grid with exactly one cell blanked,
\* solvePuzzleWithLogic fills that cell by one Naked Single application (the
\* first call; no later call reports progress) and returns solved = true,
\* maxLevel = 1 and techniquesUsed = ['Naked Single'].
C22_SingleBlank ==
  singleBlank(given) =>
    /\ trace # << >> =>
         /\ trace[1] = [tech |-> 1, progress |-> TRUE]
         /\ \A k \in 2 .. Len(trace) : ~trace[k].progress
         /\ \A i \in Cells : work.board[i] # 0
         /\ \A i \in Cells : given[i] # 0 => work.board[i] = given[i]
         /\ peerValid(work.board)
    /\ pc = "returned" =>
         ret = [solved |-> TRUE, maxLevel |-> 1, techniquesUsed |-> << "Naked Single" >>]

\* solvePuzzleWithLogic has returned for a solution grid with its last
\* cell blanked.
C22_Witness ==
  /\ pc = "returned"
  /\ singleBlank(given)
  /\ given[NN - 1] = 0
  /\ ret.solved

\* The orders of the digits in a row.
RowOrders ==
  { p \in [1 .. N -> Digits] : \A a, b \in 1 .. N : a # b => p[a] # p[b] }

\* The grids whose first r rows are filled with no two peers holding the
\* same digit; rowsFilled(N) is the set of valid solution grids.
RECURSIVE rowsFilled(_)
rowsFilled(r) ==
  IF r = 0 THEN { EmptyBoard }
  ELSE { g \in { [i \in Cells |-> IF RowOf(i) = r - 1 THEN p[ColOf(i) + 1] ELSE b[i]] :
                   b \in rowsFilled(r - 1), p \in RowOrders } :
           peerValid(g) }

ValidGrids == rowsFilled(N)

\* The valid completions of a grid.
completions(board) ==
  { sol \in ValidGrids : \A i \in Cells : board[i] # 0 => sol[i] = board[i] }

\* C23: for a peer-consistent partial grid and a limit >= 1,
\* countSolutions(grid, limit) returns min(limit, number of distinct valid
\* completions of the grid); it returns exactly 1 for a valid solution with
\* a single cell blanked.
C23_CountsCompletions ==
  pc = "counted" =>
    /\ ret = IF Cardinality(completions(given)) < config.limit
             THEN Cardinality(completions(given)) ELSE config.limit
    /\ singleBlank(given) => ret = 1

\* A grid with two or more completions counted up to the limit, and a grid
\* with none.
C23_Witness ==
  /\ pc = "counted"
  /\ config.limit = 2
  /\ Cardinality({ i \in Cells : given[i] = 0 }) <= NN - 4
  /\ Cardinality(completions(given)) >= 3
  /\ ret = 2

C23_WitnessNone ==
  /\ pc = "counted"
  /\ \E i \in Cells : given[i] # 0
  /\ completions(given) = {}
  /\ ret = 0

C23_WitnessSingle ==
  /\ pc = "counted"
  /\ config.limit = MaxLimit
  /\ singleBlank(given)
  /\ ret = 1

\* C24: isValidPlacement(grid, row, col, value) returns true exactly when
\* no cell among the peers of (row, col) holds value, for every grid, cell
\* and value: what the cell (row, col) itself holds does not influence the
\* result.
C24_PeersOnly ==
  pc = "validated" =>
    (ret <=> \A p \in PEERS[config.row * N + config.col] : given[p] # config.num)

\* What the scan of isValidPlacement computes: the cell itself counts too.
C24_PeersAndCell ==
  pc = "validated" =>
    (ret <=> /\ \A p \in PEERS[config.row * N + config.col] : given[p] # config.num
             /\ given[config.row * N + config.col] # config.num)

\* What the other engine's solvePuzzleWithLogic returns for the same grid.
otherEngine ==
  IF engine = "bitmask" THEN solvePuzzleWithLogic2D(given) ELSE solvePuzzleWithLogic(given)

cellsOf(s, u, group) ==
  { idx \in Range(getUnits[u]) : s.board[idx] = 0 /\ s.cand[idx] \cap group # {} }

\* The hidden subsets of size k of state s: a unit u and k digits, each a
\* candidate of two or more cells of u, confined to exactly k cells of
\* which one at least holds another candidate.
hiddenSubsets(s, k) ==
  { ug \in (1 .. (3 * N)) \X { g \in SUBSET Digits : Cardinality(g) = k } :
      /\ Cardinality(cellsOf(s, ug[1], ug[2])) = k
      /\ \A n \in ug[2] : Cardinality(cellsOf(s, ug[1], { n })) >= 2
      /\ \E idx \in cellsOf(s, ug[1], ug[2]) : s.cand[idx] \ ug[2] # {} }

\* A call of applyHiddenSubsets has dealt with the hidden subsets of size
\* k of the state before it.
subsetsHandled(k) ==
  tech' = 4 =>
    \A ug \in hiddenSubsets(work, k) :
      /\ work'.prog
      /\ \A idx \in cellsOf(work, ug[1], ug[2]) : work'.cand[idx] \subseteq ug[2]

\* C26: applyHiddenSubsets handles k = 2 and k = 3: whenever, in some unit,
\* k digits are confined to exactly k cells and at least one of those cells
\* holds another candidate, the call removes every other candidate from
\* those k cells and reports progress.
C26_PairsAndTriples == [][subsetsHandled(2) /\ subsetsHandled(3)]_vars

\* The number of blanks of a grid.
blanksOf(grid) == Cardinality({ i \in Cells : grid[i] = 0 })

fillBoards(eng) ==
  LET calls == fillCalls(eng, << { EmptyBoard } >>)
  IN UNION { calls[k] : k \in 1 .. Len(calls) }

InitBacktrack ==
  /\ engine \in Engines
  /\ pc = "fill"
  /\ difficulty = "none"
  /\ config = Null
  /\ attempt = 0
  /\ bestResult = Null
  /\ bestScore = -1
  /\ result = Null
  /\ ret = Null
  /\ solution = EmptyBoard
  /\ puzzle = EmptyBoard
  /\ pairs = << >>
  /\ pairIndex = 0
  /\ removed = 0
  /\ message = Null
  /\ log = << >>
  /\ exit = "none"
  /\ given \in fillBoards(engine)
  /\ work = Null
  /\ tech = 0
  /\ stats = Null
  /\ trace = << >>
  /\ poolIdle

\* fillBoard(board) on the board given, under every shuffle of the digits.
FillBoard ==
  /\ pc = "fill"
  /\ ret' \in fillTable(engine, FreeNumOrders, fillCalls(engine, << { given } >>),
                        << >>)[given]
  /\ pc' = "filled"
  /\ UNCHANGED << engine, difficulty, config, attempt, bestResult, bestScore, result,
                  solution, puzzle, pairs, pairIndex, removed, message, log, exit >>
  /\ UNCHANGED solverVars
  /\ UNCHANGED poolVars

NextBacktrack == FillBoard

SpecBacktrack == InitBacktrack /\ [][NextBacktrack]_vars

\* C28: every call of fillBoard that returns false leaves the board exactly
\* as it was on entry.
C28_CleanBacktrack ==
  (pc = "filled" /\ ~ret.ok) => ret.board = given

\* a call that tried at least one digit, went into the recursion and failed.
C28_Witness ==
  /\ pc = "filled"
  /\ ~ret.ok
  /\ ret.board = given
  /\ placedBoards(given, engine) # {}
  /\ findEmpty(given) < NN - 2

\* every given of the puzzle is the digit of the solution in the same cell.
blankedFrom(grid, sol) == \A i \in Cells : grid[i] # 0 => grid[i] = sol[i]

\* C29: in every record returned by generatePuzzleAttempt or
\* generatePuzzleSync, every non-zero cell of puzzle equals the cell of the
\* returned solution at the same position.
C29_PuzzleOfSolution ==
  /\ (pc = "judge" /\ result # Null) => blankedFrom(result.puzzle, result.solution)
  /\ \A k \in 1 .. Len(log) : log[k] # Null => blankedFrom(log[k].puzzle, log[k].solution)
  /\ ret # Null => blankedFrom(ret.puzzle, ret.solution)

\* the best record of an earlier attempt is returned after a later attempt
\* worked on a different solution.
C29_Witness ==
  /\ pc = "done"
  /\ exit = "best"
  /\ ret.solution # solution
  /\ blanksOf(ret.puzzle) >= 4
  /\ blankedFrom(ret.puzzle, ret.solution)

\* the last-resort grid is returned with its own solution.
C29_WitnessFallback ==
  /\ pc = "done"
  /\ exit = "fallback"
  /\ blanksOf(ret.puzzle) >= 1
  /\ blankedFrom(ret.puzzle, ret.solution)

(***************************************************************************)
(* The page's puzzle pool (script.js): puzzlePool, the worker and its two  *)
(* message queues, and generatePuzzle.  puzzleWorker.inbox holds the       *)
(* 'generate' messages not yet handled by the worker, puzzleWorker.outbox  *)
(* the 'result' messages not yet handled by the page; game follows the     *)
(* generatePuzzle call.  The worker's generatePuzzleSync is taken by its   *)
(* outcome: one puzzle of the last resort, with each analysis that matches *)
(* the difficulty.                                                         *)
(***************************************************************************)
\* Calls of generatePuzzle and messages posted by the worker in one behaviour.
MaxGames == 2

MaxResults == 5

\* Object.keys(SudokuGame.difficultyConfig).reverse(), two of the five keys:
\* one difficulty with technique hunting and one without.
PoolDifficulties == << "extreme", "medium" >>

\* self.postMessage({ type: 'result', difficulty, puzzle, solution, analysis })
workerResults(d) ==
  LET res == fallbackResult("bitmask", difficultyConfig[d],
                            CHOOSE sol \in SolutionPool["bitmask"][0] : TRUE, coordOrder(0))
  IN { [type |-> "result", difficulty |-> d, puzzle |-> res.puzzle,
        solution |-> res.solution, analysis |-> a] :
         a \in { g \in solverGrades : isLevelMatch(g, difficultyConfig[d]) } }

\* puzzleWorker.postMessage({ type: 'generate', difficulty, config })
requestPuzzleFromWorker(inbox, d, requiredTechnique) ==
  Append(inbox, [type |-> "generate", difficulty |-> d,
                 config |-> difficultyConfig[d],
                 requiredTechnique |-> requiredTechnique])

\* puzzlePool[difficulty].some(p => p.analysis.techniquesUsed.includes(t))
hasTechnique(entries, t) ==
  \E k \in 1 .. Len(entries) :
    \E j \in 1 .. Len(entries[k].analysis.techniquesUsed) :
      entries[k].analysis.techniquesUsed[j] = t

\* checkAndHuntSwordfish: the worker's inbox after the call.
checkAndHuntSwordfish(pool, inbox, d) ==
  IF d # "extreme" /\ d # "master" THEN inbox
  ELSE IF Len(pool[d]) < 2 THEN inbox
  ELSE LET hasUR == hasTechnique(pool[d], "Unique Rectangle")
           hasSky == hasTechnique(pool[d], "Skyscraper")
           targetTech == IF d = "extreme" THEN "Swordfish"
                         ELSE IF ~hasUR THEN "Unique Rectangle" ELSE "Skyscraper"
       IN IF d = "master" /\ hasUR /\ hasSky THEN inbox
          ELSE IF ~hasTechnique(pool[d], targetTech) /\ Len(pool[d]) < 10
               THEN requestPuzzleFromWorker(inbox, d, targetTech)
               ELSE inbox

\* replenishPool: the worker's inbox after the call.
replenishPool(pool, inbox, d) ==
  IF Len(pool[d]) < 2 THEN requestPuzzleFromWorker(inbox, d, Null) ELSE inbox

\* The loop at the end of initPuzzleWorker, over the difficulties from k on.
RECURSIVE initRequests(_, _, _)
initRequests(pool, inbox, k) ==
  IF k > Len(PoolDifficulties) THEN inbox
  ELSE LET diff == PoolDifficulties[k]
       IN initRequests(pool,
                       IF Len(pool[diff]) < 2 THEN requestPuzzleFromWorker(inbox, diff, Null)
                       ELSE checkAndHuntSwordfish(pool, inbox, diff),
                       k + 1)

\* { puzzle, solution, analysis } as the page pushes it into the pool.
poolEntries(d) ==
  { [puzzle |-> m.puzzle, solution |-> m.solution, analysis |-> m.analysis] :
      m \in workerResults(d) }

\* The pools localStorage can hold at page load: nothing saved, or the pool
\* as savePool wrote it with at most two puzzles per difficulty.
SavedPools ==
  LET saved(d) == { << >> } \cup { << e >> : e \in poolEntries(d) }
                     \cup { << e, f >> : e \in poolEntries(d), f \in poolEntries(d) }
  IN { [d \in { "extreme", "medium" } |-> IF d = "extreme" THEN x ELSE m] :
         x \in saved("extreme"), m \in saved("medium") }

\* The state after initPuzzleWorker().
InitPool ==
  /\ engine = "bitmask"
  /\ pc = "page"
  /\ difficulty = "none"
  /\ config = Null
  /\ attempt = 0
  /\ bestResult = Null
  /\ bestScore = -1
  /\ result = Null
  /\ ret = Null
  /\ solution = EmptyBoard
  /\ puzzle = EmptyBoard
  /\ pairs = << >>
  /\ pairIndex = 0
  /\ removed = 0
  /\ message = Null
  /\ log = << >>
  /\ exit = "none"
  /\ solverIdle
  /\ puzzlePool \in SavedPools
  /\ puzzleWorker = [inbox |-> initRequests(puzzlePool, << >>, 1), outbox |-> << >>,
                     posted |-> 0]
  /\ game = [calls |-> 0, generating |-> "none"]

\* puzzle-worker.js, self.onmessage: one 'generate' message in, one 'result'
\* message out.
WorkerOnMessage ==
  /\ puzzleWorker.inbox # << >>
  /\ puzzleWorker.posted < MaxResults
  /\ \E m \in workerResults(Head(puzzleWorker.inbox).difficulty) :
       puzzleWorker' = [inbox |-> Tail(puzzleWorker.inbox),
                        outbox |-> Append(puzzleWorker.outbox, m),
                        posted |-> puzzleWorker.posted + 1]
  /\ UNCHANGED << engine, pc, difficulty, config, attempt, bestResult, bestScore, result,
                  ret, solution, puzzle, pairs, pairIndex, removed, message, log, exit,
                  puzzlePool, game >>
  /\ UNCHANGED solverVars

\* puzzleWorker.onmessage of the page: push, replenishPool, checkAndHuntSwordfish.
OnWorkerResult ==
  /\ puzzleWorker.outbox # << >>
  /\ LET m == Head(puzzleWorker.outbox)
         pool == [puzzlePool EXCEPT ![m.difficulty] =
                    Append(@, [puzzle |-> m.puzzle, solution |-> m.solution,
                               analysis |-> m.analysis])]
     IN /\ puzzlePool' = pool
        /\ puzzleWorker' =
             [puzzleWorker EXCEPT
                !.outbox = Tail(@),
                !.inbox = checkAndHuntSwordfish(pool, replenishPool(pool, @, m.difficulty),
                                                m.difficulty)]
  /\ UNCHANGED << engine, pc, difficulty, config, attempt, bestResult, bestScore, result,
                  ret, solution, puzzle, pairs, pairIndex, removed, message, log, exit,
                  game >>
  /\ UNCHANGED solverVars

\* generatePuzzle(difficulty) with a puzzle in the pool: shift, replenishPool,
\* checkAndHuntSwordfish, return cached.
GeneratePuzzleFromPool ==
  /\ game.generating = "none"
  /\ game.calls < MaxGames
  /\ \E k \in 1 .. Len(PoolDifficulties) :
       LET d == PoolDifficulties[k]
           pool == [puzzlePool EXCEPT ![d] = Tail(@)]
       IN /\ Len(puzzlePool[d]) > 0
          /\ puzzlePool' = pool
          /\ puzzleWorker' =
               [puzzleWorker EXCEPT
                  !.inbox = checkAndHuntSwordfish(pool, replenishPool(pool, @, d), d)]
          /\ ret' = Head(puzzlePool[d])
  /\ game' = [game EXCEPT !.calls = @ + 1]
  /\ UNCHANGED << engine, pc, difficulty, config, attempt, bestResult, bestScore, result,
                  solution, puzzle, pairs, pairIndex, removed, message, log, exit >>
  /\ UNCHANGED solverVars

\* generatePuzzle(difficulty) with the pool empty: the generation on the main
\* thread starts; its loop yields to the event loop between attempts.
GeneratePuzzleOnMainThread ==
  /\ game.generating = "none"
  /\ game.calls < MaxGames
  /\ \E k \in 1 .. Len(PoolDifficulties) :
       /\ Len(puzzlePool[PoolDifficulties[k]]) = 0
       /\ game' = [calls |-> game.calls + 1, generating |-> PoolDifficulties[k]]
  /\ UNCHANGED << engine, pc, difficulty, config, attempt, bestResult, bestScore, result,
                  ret, solution, puzzle, pairs, pairIndex, removed, message, log, exit,
                  puzzlePool, puzzleWorker >>
  /\ UNCHANGED solverVars

\* The three ends of the generation on the main thread: replenishPool, then
\* return { puzzle, solution }.
GeneratePuzzleReturn ==
  /\ game.generating # "none"
  /\ puzzleWorker' = [puzzleWorker EXCEPT
                        !.inbox = replenishPool(puzzlePool, @, game.generating)]
  /\ \E m \in workerResults(game.generating) :
       ret' = [puzzle |-> m.puzzle, solution |-> m.solution]
  /\ game' = [game EXCEPT !.generating = "none"]
  /\ UNCHANGED << engine, pc, difficulty, config, attempt, bestResult, bestScore, result,
                  solution, puzzle, pairs, pairIndex, removed, message, log, exit,
                  puzzlePool >>
  /\ UNCHANGED solverVars

NextPool ==
  \/ WorkerOnMessage
  \/ OnWorkerResult
  \/ GeneratePuzzleFromPool
  \/ GeneratePuzzleOnMainThread
  \/ GeneratePuzzleReturn

SpecPool == InitPool /\ [][NextPool]_vars

\* C30: puzzlePool[d] for a difficulty without technique hunting (medium,
\* hard, expert) never holds more than 2 puzzles.
C30_PoolAtMostTwo ==
  \A d \in DOMAIN puzzlePool :
    d \in { "medium", "hard", "expert" } => Len(puzzlePool[d]) <= 2
====
